---- MODULE Spec2Model ----
(***************************************************************************)
(* Model of the product scraper (src/web/services/scraper.js):             *)
(* ProductScraper.scrape, detectPlatform, getDemoProduct and the           *)
(* per-platform extractors, as a state machine of one scrape run.          *)
(* StoreBuilder.build and the GeneratePage component                       *)
(* (src/unnamed/part_001) are modelled as state machines of their own.     *)
(*                                                                         *)
(* Strings are sequences of one-character strings, so that toLowerCase,    *)
(* includes, trim, split and the regular expressions of the code are       *)
(* computed character by character.  Numbers are counted in hundredths     *)
(* (12.99 is 1299).  A JavaScript value is a record with a "kind" field.   *)
(***************************************************************************)
EXTENDS Integers, Sequences, FiniteSets, TLC

VARIABLES
    pc,            \* position of the scrape run
    now,           \* the wall clock read by new Date()
    url,           \* the argument of scrape(url)
    platform,      \* const platform = this.detectPlatform(url)
    result,        \* the candidate the selected extractor returned (let result)
    error,         \* the error caught by scrape's catch block, "none" if none
    ret,           \* the value scrape returned
    outcome,       \* how scrape completed: "returned" or "thrown"
    fetches,       \* the outbound fetches issued by this run, in order
    kept,          \* the record an earlier invocation on the same url returned
    page,          \* response.data of the last fetch the run consumed
    other,         \* a second url handed to detectPlatform
    otherPlatform, \* detectPlatform(other)
    body,          \* req.body.url of the request POST /api/scrape is serving
    status,        \* the HTTP status POST /api/scrape answered with, 0 before
    suspended,     \* the locals of a second scrape run, waiting at an await
    build,         \* a run of StoreBuilder.build
    wizard         \* the state of the GeneratePage component

vars == <<pc, now, url, platform, result, error, ret, outcome, fetches, kept,
          page, other, otherPlatform, body, status, suspended, build, wizard>>

---------------------------------------------------------------------------
\* Bounds of the model.

\* Longest page text (over TitleAlphabet) the environment serves as a title.
MaxTitleLen == 5

\* Last reading of the clock.
MaxTime == 2

\* Longest list of distinct images the environment serves (the extractors
\* keep 15).
MaxImages == 16

\* Most images of a record handed to StoreBuilder.build (it uploads 10).
MaxProductImages == 11

---------------------------------------------------------------------------
\* JavaScript values.

Undefined == [kind |-> "undefined"]
Null == [kind |-> "null"]
NaN == [kind |-> "NaN"]
Obj == [kind |-> "object"]
Num(n) == [kind |-> "number", val |-> n]
Str(s) == [kind |-> "string", val |-> s]
Bool(b) == [kind |-> "boolean", val |-> b]
Arr(a) == [kind |-> "array", val |-> a]

\* ToBoolean: undefined, null, NaN, 0, "" and false are falsy.
Truthy(v) ==
    CASE v.kind \in {"undefined", "null", "NaN"} -> FALSE
      [] v.kind = "number" -> v.val # 0
      [] v.kind = "string" -> v.val # <<>>
      [] v.kind = "boolean" -> v.val
      [] OTHER -> TRUE

\* a || b
Or(a, b) == IF Truthy(a) THEN a ELSE b

---------------------------------------------------------------------------
\* String primitives.

UpperChars == <<"A","B","C","D","E","F","G","H","I","J","K","L","M",
                "N","O","P","Q","R","S","T","U","V","W","X","Y","Z">>
LowerChars == <<"a","b","c","d","e","f","g","h","i","j","k","l","m",
                "n","o","p","q","r","s","t","u","v","w","x","y","z">>
Digits == {"0","1","2","3","4","5","6","7","8","9"}

LowerChar(c) ==
    IF \E i \in 1..26 : UpperChars[i] = c
    THEN LowerChars[CHOOSE i \in 1..26 : UpperChars[i] = c]
    ELSE c

UpperChar(c) ==
    IF \E i \in 1..26 : LowerChars[i] = c
    THEN UpperChars[CHOOSE i \in 1..26 : LowerChars[i] = c]
    ELSE c

\* String.prototype.toLowerCase
ToLowerCase(s) == [i \in 1..Len(s) |-> LowerChar(s[i])]

\* s has sub at (1-based) position i
MatchAt(s, sub, i) ==
    /\ i >= 1
    /\ i + Len(sub) - 1 <= Len(s)
    /\ \A j \in 1..Len(sub) : s[i + j - 1] = sub[j]

\* String.prototype.includes
Includes(s, sub) == \E i \in 1..(Len(s) + 1) : MatchAt(s, sub, i)

\* String.prototype.startsWith
StartsWith(s, sub) == MatchAt(s, sub, 1)

\* String.prototype.trim (the only white space of the model is the blank)
Trim(s) ==
    IF \A i \in 1..Len(s) : s[i] = " " THEN <<>>
    ELSE LET a == CHOOSE i \in 1..Len(s) :
                      s[i] # " " /\ \A j \in 1..(i - 1) : s[j] = " "
             b == CHOOSE i \in 1..Len(s) :
                      s[i] # " " /\ \A j \in (i + 1)..Len(s) : s[j] = " "
         IN  SubSeq(s, a, b)

\* s.split("-")[0]
SplitDashFirst(s) ==
    IF \E i \in 1..Len(s) : s[i] = "-"
    THEN SubSeq(s, 1, (CHOOSE i \in 1..Len(s) :
                          s[i] = "-" /\ \A j \in 1..(i - 1) : s[j] # "-") - 1)
    ELSE s

---------------------------------------------------------------------------
\* Platform detection (scraper.js, detectPlatform).

FragAliExpress == <<"a","l","i","e","x","p","r","e","s","s",".">>
FragAmazon == <<"a","m","a","z","o","n",".">>
FragAlibaba == <<"a","l","i","b","a","b","a",".","c","o","m">>
Frag1688 == <<"1","6","8","8",".","c","o","m">>
FragCj == <<"c","j","d","r","o","p","s","h","i","p","p","i","n","g",".","c","o","m">>

\* detectPlatform without url.toLowerCase()
detectPlatform_caseSensitive(u) ==
    IF Includes(u, FragAliExpress) THEN "aliexpress"
    ELSE IF Includes(u, FragAmazon) THEN "amazon"
    ELSE IF Includes(u, FragAlibaba) THEN "alibaba"
    ELSE IF Includes(u, Frag1688) THEN "1688"
    ELSE IF Includes(u, FragCj) THEN "cj"
    ELSE "generic"

\* detectPlatform that answers with the fragment where an id is meant
detectPlatform_fragmentId(u) ==
    LET urlLower == ToLowerCase(u)
    IN  IF Includes(urlLower, FragAliExpress) THEN "aliexpress"
        ELSE IF Includes(urlLower, FragAmazon) THEN "amazon"
        ELSE IF Includes(urlLower, FragAlibaba) THEN "alibaba.com"
        ELSE IF Includes(urlLower, Frag1688) THEN "1688"
        ELSE IF Includes(urlLower, FragCj) THEN "cj"
        ELSE "generic"

\* detectPlatform that reports an unmatched url as "unknown"
detectPlatform_unknown(u) ==
    LET urlLower == ToLowerCase(u)
    IN  IF Includes(urlLower, FragAliExpress) THEN "aliexpress"
        ELSE IF Includes(urlLower, FragAmazon) THEN "amazon"
        ELSE IF Includes(urlLower, FragAlibaba) THEN "alibaba"
        ELSE IF Includes(urlLower, Frag1688) THEN "1688"
        ELSE IF Includes(urlLower, FragCj) THEN "cj"
        ELSE "unknown"

detectPlatform(u) ==
    LET urlLower == ToLowerCase(u)
    IN  IF Includes(urlLower, FragAliExpress) THEN "aliexpress"
        ELSE IF Includes(urlLower, FragAmazon) THEN "amazon"
        ELSE IF Includes(urlLower, FragAlibaba) THEN "alibaba"
        ELSE IF Includes(urlLower, Frag1688) THEN "1688"
        ELSE IF Includes(urlLower, FragCj) THEN "cj"
        ELSE "generic"

---------------------------------------------------------------------------
\* The urls handed to the scraper.

Scheme == <<"h","t","t","p","s",":","/","/">>
Www == <<"w","w","w",".">>

Hosts ==
    { <<"a","l","i","e","x","p","r","e","s","s",".","c","o","m">>,
      <<"a","l","i","e","x","p","r","e","s","s",".","u","s">>,
      <<"m",".","a","l","i","e","x","p","r","e","s","s",".","c","o","m">>,
      <<"a","l","i","e","x","p","r","e","s","s">>,
      <<"a","m","a","z","o","n",".","d","e">>,
      <<"a","m","a","z","o","n","a","w","s",".","i","o">>,
      <<"a","l","i","b","a","b","a",".","c","o","m">>,
      <<"a","l","i","b","a","b","a",".","c","n">>,
      <<"d","e","t","a","i","l",".","1","6","8","8",".","c","o","m">>,
      <<"c","j","d","r","o","p","s","h","i","p","p","i","n","g",".","c","o","m">>,
      <<"e","x","a","m","p","l","e",".","c","o","m">> }

PathItemHtml == <<"/","i","t","e","m","/","1","0","0","5",".","h","t","m","l">>
PathItem == <<"/","i","t","e","m","/","4","2">>
PathHtml == <<"/","p","/","7","7",".","h","t","m","l">>
PathDp == <<"/","d","p","/","B","0","1">>
PathRefAmazon == <<"/","?","r","e","f","=","a","m","a","z","o","n",".","c","o","m">>
PathBlog1688 == <<"/","b","l","o","g","/","1","6","8","8",".","c","o","m">>

Paths == {<<>>, PathItemHtml, PathItem, PathHtml, PathDp, PathRefAmazon, PathBlog1688}

\* String.prototype.toUpperCase, and a mixed-case spelling: the environment's
\* ways of writing the same url in another letter case.
ToUpperCase(s) == [i \in 1..Len(s) |-> UpperChar(s[i])]
MixedCase(s) == [i \in 1..Len(s) |-> IF i % 2 = 1 THEN UpperChar(s[i]) ELSE LowerChar(s[i])]
CaseVariants(s) == {s, ToLowerCase(s), ToUpperCase(s), MixedCase(s)}

\* The urls detectPlatform is applied to.
DetectUrls == {Scheme \o w \o h \o p : w \in {<<>>, Www}, h \in Hosts, p \in Paths}

UrlAliItem == Scheme \o Www \o <<"a","l","i","e","x","p","r","e","s","s",".","c","o","m">> \o PathItemHtml
UrlAliMixed == Scheme \o <<"A","l","i","E","x","p","r","e","s","s",".","c","o","m">> \o PathItem
UrlAliNoId == Scheme \o <<"a","l","i","e","x","p","r","e","s","s",".","u","s">>
UrlAmazon == Scheme \o Www \o <<"a","m","a","z","o","n",".","d","e">> \o PathDp
UrlAlibaba == Scheme \o <<"a","l","i","b","a","b","a",".","c","o","m">> \o PathHtml
Url1688 == Scheme \o <<"d","e","t","a","i","l",".","1","6","8","8",".","c","o","m">> \o PathHtml
UrlCj == Scheme \o <<"c","j","d","r","o","p","s","h","i","p","p","i","n","g",".","c","o","m">>
UrlBlog == Scheme \o <<"e","x","a","m","p","l","e",".","c","o","m">>
UrlBlogRef == Scheme \o <<"e","x","a","m","p","l","e",".","c","o","m">> \o PathRefAmazon

\* The urls scrape is called with.
RunUrls == {UrlAliItem, UrlAliMixed, UrlAliNoId, UrlAmazon, UrlAlibaba, Url1688,
            UrlCj, UrlBlog, UrlBlogRef}

---------------------------------------------------------------------------
\* Product id of an AliExpress url (scrapeAliExpress, the three url.match).

\* Index of the last character of the longest run of digits starting at i
\* (i - 1 when s[i] is no digit): what a greedy (\d+) consumes.
DigitRunEnd(s, i) ==
    IF i > Len(s) \/ s[i] \notin Digits THEN i - 1
    ELSE CHOOSE e \in i..Len(s) :
             /\ \A j \in i..e : s[j] \in Digits
             /\ (e = Len(s) \/ s[e + 1] \notin Digits)

\* s.match(/<prefix>(\d+)<suffix>/): the positions where the pattern matches
RegexIdAt(s, prefix, suffix, i) ==
    /\ MatchAt(s, prefix, i)
    /\ DigitRunEnd(s, i + Len(prefix)) >= i + Len(prefix)
    /\ MatchAt(s, suffix, DigitRunEnd(s, i + Len(prefix)) + 1)

RegexIdMatches(s, prefix, suffix) ==
    \E i \in 1..Len(s) : RegexIdAt(s, prefix, suffix, i)

\* match[1] of the leftmost match
RegexIdGroup(s, prefix, suffix) ==
    LET i == CHOOSE k \in 1..Len(s) :
                 /\ RegexIdAt(s, prefix, suffix, k)
                 /\ \A j \in 1..(k - 1) : ~RegexIdAt(s, prefix, suffix, j)
    IN  SubSeq(s, i + Len(prefix), DigitRunEnd(s, i + Len(prefix)))

ReItemSlash == <<"/","i","t","e","m","/">>
ReSlash == <<"/">>
ReItem == <<"i","t","e","m","/">>
ReDotHtml == <<".","h","t","m","l">>

\* const productId = productIdMatch ? productIdMatch[1] : null
ProductIdOf(u) ==
    IF RegexIdMatches(u, ReItemSlash, ReDotHtml)
    THEN Str(RegexIdGroup(u, ReItemSlash, ReDotHtml))
    ELSE IF RegexIdMatches(u, ReSlash, ReDotHtml)
    THEN Str(RegexIdGroup(u, ReSlash, ReDotHtml))
    ELSE IF RegexIdMatches(u, ReItem, <<>>)
    THEN Str(RegexIdGroup(u, ReItem, <<>>))
    ELSE Null

---------------------------------------------------------------------------
\* Price text handling (parseFloat and the price regular expressions).

DigitSeq == <<"0","1","2","3","4","5","6","7","8","9">>
DigitVal(c) == (CHOOSE n \in 1..10 : DigitSeq[n] = c) - 1
PriceChars == Digits \cup {".", ","}

RECURSIVE IntVal(_)
\* value of a run of decimal digits
IntVal(ds) ==
    IF ds = <<>> THEN 0
    ELSE 10 * IntVal(SubSeq(ds, 1, Len(ds) - 1)) + DigitVal(ds[Len(ds)])

\* the fraction digits, in hundredths (the model's numbers have two decimals)
FracVal(ds) ==
    IF Len(ds) = 0 THEN 0
    ELSE IF Len(ds) = 1 THEN 10 * DigitVal(ds[1])
    ELSE 10 * DigitVal(ds[1]) + DigitVal(ds[2])

\* the characters of s that keep(c) holds of: s.replace(/[^...]/g, "")
RECURSIVE KeepChars(_, _)
KeepChars(s, keep) ==
    IF s = <<>> THEN <<>>
    ELSE (IF Head(s) \in keep THEN <<Head(s)>> ELSE <<>>) \o KeepChars(Tail(s), keep)

\* s.replace(",", ""): the first comma only
RemoveFirstComma(s) ==
    IF \E i \in 1..Len(s) : s[i] = ","
    THEN LET i == CHOOSE k \in 1..Len(s) :
                      s[k] = "," /\ \A j \in 1..(k - 1) : s[j] # ","
         IN  SubSeq(s, 1, i - 1) \o SubSeq(s, i + 1, Len(s))
    ELSE s

\* Index of the last character of the longest run of characters of cs
\* starting at i (i - 1 when s[i] is not in cs).
RunEnd(s, cs, i) ==
    IF i > Len(s) \/ s[i] \notin cs THEN i - 1
    ELSE CHOOSE e \in i..Len(s) :
             /\ \A j \in i..e : s[j] \in cs
             /\ (e = Len(s) \/ s[e + 1] \notin cs)

\* s.match(/[\d.,]+/): the match (priceMatch[0]), or Null
MatchPriceRun(s) ==
    IF \E i \in 1..Len(s) : s[i] \in PriceChars
    THEN LET i == CHOOSE k \in 1..Len(s) :
                      s[k] \in PriceChars /\ \A j \in 1..(k - 1) : s[j] \notin PriceChars
         IN  Str(SubSeq(s, i, RunEnd(s, PriceChars, i)))
    ELSE Null

\* s.match(/US\s*\$\s*([\d.,]+)/) at position i: U S, blanks, $, blanks, a run
UsDollarAt(s, i) ==
    LET d == RunEnd(s, {" "}, i + 2) + 1
        r == RunEnd(s, {" "}, d + 1) + 1
    IN  /\ MatchAt(s, <<"U", "S">>, i)
        /\ d <= Len(s) /\ s[d] = "$"
        /\ RunEnd(s, PriceChars, r) >= r

\* priceMatch[1] of the leftmost match, or Null
MatchUsDollar(s) ==
    IF \E i \in 1..Len(s) : UsDollarAt(s, i)
    THEN LET i == CHOOSE k \in 1..Len(s) :
                      UsDollarAt(s, k) /\ \A j \in 1..(k - 1) : ~UsDollarAt(s, j)
             d == RunEnd(s, {" "}, i + 2) + 1
             r == RunEnd(s, {" "}, d + 1) + 1
         IN  Str(SubSeq(s, r, RunEnd(s, PriceChars, r)))
    ELSE Null

\* parseFloat of a string: blanks, a sign, digits, a point, digits
ParseFloatStr(s) ==
    LET a == RunEnd(s, {" "}, 1) + 1
        signed == a <= Len(s) /\ s[a] \in {"-", "+"}
        b == IF signed THEN a + 1 ELSE a
        e1 == RunEnd(s, Digits, b)
        point == e1 + 1 <= Len(s) /\ s[e1 + 1] = "."
        e2 == IF point THEN RunEnd(s, Digits, e1 + 2) ELSE e1
        ints == SubSeq(s, b, e1)
        fracs == IF point THEN SubSeq(s, e1 + 2, e2) ELSE <<>>
        magnitude == 100 * IntVal(ints) + FracVal(fracs)
    IN  IF ints = <<>> /\ fracs = <<>> THEN NaN
        ELSE IF signed /\ s[a] = "-" THEN Num(0 - magnitude)
        ELSE Num(magnitude)

\* parseFloat(v): v is converted to a string first
ParseFloat(v) ==
    CASE v.kind = "string" -> ParseFloatStr(v.val)
      [] v.kind = "number" -> v
      [] OTHER -> NaN

---------------------------------------------------------------------------
\* Image urls (the images arrays of the extractors).

\* The src values the environment puts on a page or in a JSON answer:
\* //cdn.example.com/a.jpg, https://cdn.example.com/a.jpg, .../b.jpg,
\* a data: uri, /img/c.jpg, an alicdn thumbnail with its full-size url and a
\* protocol-relative alicdn url, an Amazon thumbnail with its full-size url.
ImageSrcs ==
    [ relative |-> <<"/","/","c","d","n",".","e","x","a","m","p","l","e",".","c","o","m","/","a",".","j","p","g">>,
      absolute |-> <<"h","t","t","p","s",":","/","/","c","d","n",".","e","x","a","m","p","l","e",".","c","o","m","/","a",".","j","p","g">>,
      second |-> <<"h","t","t","p","s",":","/","/","c","d","n",".","e","x","a","m","p","l","e",".","c","o","m","/","b",".","j","p","g">>,
      dataUri |-> <<"d","a","t","a",":","i","m","a","g","e","/","g","i","f",";","b","a","s","e","6","4",",","R","0">>,
      rooted |-> <<"/","i","m","g","/","c",".","j","p","g">>,
      aliThumb |-> <<"h","t","t","p","s",":","/","/","a","e","0","1",".","a","l","i","c","d","n",".","c","o","m","/","k","f","/","a","_","5","0","x","5","0",".","j","p","g">>,
      aliLarge |-> <<"h","t","t","p","s",":","/","/","a","e","0","1",".","a","l","i","c","d","n",".","c","o","m","/","k","f","/","a",".","j","p","g">>,
      aliRelative |-> <<"/","/","a","e","0","1",".","a","l","i","c","d","n",".","c","o","m","/","k","f","/","b",".","j","p","g">>,
      amazonThumb |-> <<"h","t","t","p","s",":","/","/","m",".","m","e","d","i","a","-","a","m","a","z","o","n",".","c","o","m","/","i","m","a","g","e","s","/","I","/","a",".","_","A","C","_","U","S","4","0","_",".","j","p","g">>,
      amazonLarge |-> <<"h","t","t","p","s",":","/","/","m",".","m","e","d","i","a","-","a","m","a","z","o","n",".","c","o","m","/","i","m","a","g","e","s","/","I","/","a",".","j","p","g">> ]

\* MaxImages distinct absolute urls
ManyImages ==
    [i \in 1..MaxImages |-> <<"h","t","t","p","s",":","/","/","c","d","n",".","e","x","a","m","p","l","e",".","c","o","m","/">> \o <<LowerChars[i]>> \o <<".","j","p","g">>]

\* The lists of src values found on a page, in page order.
ImageLists ==
    { <<>>,
      <<ImageSrcs.relative>>,
      <<ImageSrcs.relative, ImageSrcs.relative>>,
      <<ImageSrcs.absolute, ImageSrcs.second, ImageSrcs.absolute>>,
      <<ImageSrcs.dataUri, ImageSrcs.absolute>>,
      <<ImageSrcs.rooted, ImageSrcs.relative>>,
      <<ImageSrcs.aliThumb, ImageSrcs.aliLarge, ImageSrcs.aliRelative>>,
      <<ImageSrcs.amazonThumb, ImageSrcs.amazonLarge>>,
      ManyImages }

\* Array.prototype.includes
ArrayIncludes(a, x) == \E i \in 1..Len(a) : a[i] = x

\* images.slice(0, 15)
Slice15(a) == SubSeq(a, 1, IF Len(a) < 15 THEN Len(a) ELSE 15)

\* src.replace(/\._.*_\./, "."): from the first "._" that a later "_." follows
\* to the last such "_."
ReplaceAmazonSize(s) ==
    LET opens(i) == /\ MatchAt(s, <<".", "_">>, i)
                    /\ \E j \in (i + 2)..Len(s) : MatchAt(s, <<"_", ".">>, j)
    IN  IF \E i \in 1..Len(s) : opens(i)
        THEN LET i == CHOOSE k \in 1..Len(s) : opens(k) /\ \A m \in 1..(k - 1) : ~opens(m)
                 j == CHOOSE k \in (i + 2)..Len(s) :
                          /\ MatchAt(s, <<"_", ".">>, k)
                          /\ \A m \in (k + 1)..Len(s) : ~MatchAt(s, <<"_", ".">>, m)
             IN  SubSeq(s, 1, i - 1) \o <<".">> \o SubSeq(s, j + 2, Len(s))
        ELSE s

\* /_\d+x\d+\.(jpg|png|webp)/i at the head of s: the index of the last
\* character of the match, 0 when s does not begin with one
AliSizeEnd(s) ==
    LET a == DigitRunEnd(s, 2)
        b == DigitRunEnd(s, a + 2)
        ext(n) == b + 1 + n <= Len(s)
                  /\ ToLowerCase(SubSeq(s, b + 2, b + 1 + n)) \in {<<"j","p","g">>, <<"p","n","g">>, <<"w","e","b","p">>}
    IN  IF /\ Len(s) >= 1 /\ s[1] = "_"
           /\ a >= 2
           /\ a + 1 <= Len(s) /\ s[a + 1] \in {"x", "X"}
           /\ b >= a + 2
           /\ b + 1 <= Len(s) /\ s[b + 1] = "."
        THEN (IF ext(3) THEN b + 4 ELSE IF ext(4) THEN b + 5 ELSE 0)
        ELSE 0

RECURSIVE ReplaceAliSize(_)
\* src.replace(/_\d+x\d+\.(jpg|png|webp)/gi, ".$1")
ReplaceAliSize(s) ==
    IF s = <<>> THEN <<>>
    ELSE IF AliSizeEnd(s) > 0
    THEN LET e == AliSizeEnd(s)
             dot == CHOOSE k \in 1..e : s[k] = "." /\ \A m \in (k + 1)..e : s[m] # "."
         IN  SubSeq(s, dot, e) \o ReplaceAliSize(SubSeq(s, e + 1, Len(s)))
    ELSE <<Head(s)>> \o ReplaceAliSize(Tail(s))

\* new URL(src, url).href, for a base url scheme://host or scheme://host/path
\* with a lower-case host and no query, and a src that needs no escaping
ResolveUrl(src, base) ==
    LET colon == CHOOSE i \in 1..Len(base) : base[i] = ":" /\ \A j \in 1..(i - 1) : base[j] # ":"
        hostEnd == IF \E i \in (colon + 3)..Len(base) : base[i] = "/"
                   THEN (CHOOSE i \in (colon + 3)..Len(base) :
                            base[i] = "/" /\ \A j \in (colon + 3)..(i - 1) : base[j] # "/") - 1
                   ELSE Len(base)
        lastSlash == IF hostEnd < Len(base)
                     THEN CHOOSE i \in (hostEnd + 1)..Len(base) :
                              base[i] = "/" /\ \A j \in (i + 1)..Len(base) : base[j] # "/"
                     ELSE 0
    IN  IF StartsWith(src, <<"/", "/">>) THEN SubSeq(base, 1, colon) \o src
        ELSE IF StartsWith(src, <<"/">>) THEN SubSeq(base, 1, hostEnd) \o src
        ELSE IF lastSlash = 0 THEN base \o <<"/">> \o src
        ELSE SubSeq(base, 1, lastSlash) \o src

---------------------------------------------------------------------------
\* What the fetched pages hold.

TitleAlphabet == {"4", "0"}
TitleTexts == UNION {[1..n -> TitleAlphabet] : n \in 0..MaxTitleLen}

TextCharger == <<"W","i","r","e","l","e","s","s"," ","C","h","a","r","g","e","r">>
TextMug == <<"A","r","t","i","s","a","n"," ","M","u","g">>
TextPadded == <<" ","0","0","0","0"," ">>
TextDash == <<"M","u","g"," ","-"," ","S","h","o","p">>
TextNotFound == <<"P","a","g","e"," ","N","o","t"," ","F","o","u","n","d">>
TextError404 == <<"E","r","r","o","r"," ","4","0","4">>
Text404 == <<"4","0","4">>
TextProduct == <<"P","r","o","d","u","c","t">>

PageTitleTexts == TitleTexts \cup {TextCharger, TextPadded}

PriceNone == <<>>
Price1299 == <<"1","2",".","9","9">>
Price999 == <<"9",".","9","9">>
PriceUs == <<"U","S"," ","$","1","2",".","9","9">>
PriceDollar == <<"$","1","2",".","9","9">>
PriceZero == <<"0",".","0","0">>
PriceComma == <<"1",",","2","9","9",".","0","0">>
PriceWord == <<"f","r","e","e">>

BodyUs == <<"<","p",">","U","S"," ","$","1","2",".","9","9","<","/","p",">">>
BodySoldOut == <<"<","p",">","s","o","l","d"," ","o","u","t","<","/","p",">">>

\* axios.get rejects: no answer, the timeout option, a status outside 2xx
FetchErrors == {"network error", "timeout", "status 404"}

\* JSON values found where a title is expected
JsonTitles ==
    { Undefined, Null, Num(0), Num(1234500), Bool(TRUE), Obj,
      Str(<<>>), Str(TextCharger), Str(TextError404),
      Arr(<<>>),
      Arr(<<Str(<<"a">>), Str(<<"b">>), Str(<<"c">>), Str(<<"d">>), Str(<<"e">>)>>),
      Arr(<<Str(<<"a">>), Str(<<"b">>), Str(<<"c">>), Str(<<"d">>), Str(Text404)>>) }

\* JSON values found where a price is expected
JsonPrices == {Undefined, Num(0), Num(1299), Num(0 - 500), Str(Price999), Str(PriceWord)}

\* response.data of the mobile API (scrapeAliExpressAPI)
ApiResponses ==
    {Null, [item |-> Undefined]}
    \cup {[item |-> [title |-> t, promotionPrice |-> q, price |-> Num(2599), images |-> Undefined]] :
             t \in JsonTitles \cup {Str(x) : x \in TitleTexts}, q \in {Undefined, Num(1299)}}
    \cup {[item |-> [title |-> Str(TextCharger), promotionPrice |-> q, price |-> r,
                     images |-> Undefined]] :
             q \in JsonPrices, r \in {Undefined, Num(2599)}}
    \cup {[item |-> [title |-> Str(TextCharger), promotionPrice |-> Num(1299),
                     price |-> Num(2599), images |-> Arr(l)]] : l \in ImageLists}

\* priceModule of the data embedded in an AliExpress page
AliPriceModules ==
    { Undefined,
      [minActivityAmount |-> Num(1299), minAmount |-> Num(2599), formatedActivityPrice |-> Undefined],
      [minActivityAmount |-> Undefined, minAmount |-> Num(2599), formatedActivityPrice |-> Undefined],
      [minActivityAmount |-> Undefined, minAmount |-> Undefined, formatedActivityPrice |-> Str(PriceUs)],
      [minActivityAmount |-> Undefined, minAmount |-> Undefined, formatedActivityPrice |-> Undefined],
      [minActivityAmount |-> Undefined, minAmount |-> Undefined, formatedActivityPrice |-> Num(1299)] }

\* An AliExpress product page: its script tags and the texts the selectors
\* find.  A script tag is the triple of what the three patterns of the scan
\* match in it: Null (no match), or the matched text, given by whether
\* JSON.parse accepts it (valid) and the value it then returns.  pageData is
\* `let pageData = null` before the scan.  The pages are those whose first
\* script tag holds the given data under window.runParams, and pages with
\* two script tags.
AliPages ==
    LET embedded ==
        {[pageData |-> Null, h1 |-> t, productTitle |-> <<>>, titleTag |-> TextDash, body |-> b,
          imgs |-> <<>>] :
            t \in PageTitleTexts, b \in {BodyUs, BodySoldOut}}
        \cup {[pageData |-> Null, h1 |-> <<>>, productTitle |-> d, titleTag |-> g, body |-> BodyUs,
               imgs |-> <<>>] :
            d \in {<<>>, TextCharger}, g \in {<<>>, TextDash}}
        \cup {[pageData |-> [pageTitle |-> t, subject |-> j, priceModule |-> m, descriptionUrl |-> d,
                             imagePathList |-> Undefined],
               h1 |-> <<>>, productTitle |-> <<>>, titleTag |-> TextDash, body |-> BodyUs,
               imgs |-> <<>>] :
            t \in JsonTitles, j \in {Undefined, Str(TextCharger)}, m \in AliPriceModules,
            d \in BOOLEAN}
        \cup {[pageData |-> [pageTitle |-> Str(TextCharger), subject |-> Undefined,
                             priceModule |-> Undefined, descriptionUrl |-> FALSE,
                             imagePathList |-> l],
               h1 |-> <<>>, productTitle |-> <<>>, titleTag |-> TextDash, body |-> BodyUs,
               imgs |-> g] :
            l \in {Undefined} \cup {Arr(x) : x \in ImageLists},
            g \in {<<>>, <<ImageSrcs.aliThumb, ImageSrcs.aliLarge, ImageSrcs.aliRelative,
                           ImageSrcs.dataUri>>}}
        \* a page without embedded data whose body reads <p>US $1,299.00</p>
        \cup {[pageData |-> Null, h1 |-> TextCharger, productTitle |-> <<>>, titleTag |-> TextDash,
               body |-> <<"<","p",">","U","S"," ","$","1",",","2","9","9",".","0","0","<","/","p",">">>,
               imgs |-> <<>>]}
        good(t) == [valid |-> TRUE,
                    value |-> [pageTitle |-> Str(t), subject |-> Undefined,
                               priceModule |-> [minActivityAmount |-> Num(1299),
                                                minAmount |-> Num(2599),
                                                formatedActivityPrice |-> Undefined],
                               descriptionUrl |-> FALSE, imagePathList |-> Undefined]]
        bad == [valid |-> FALSE, value |-> Undefined]
        tags == { <<Null, Null, Null>>, <<bad, Null, Null>>, <<bad, good(TextCharger), Null>>,
                  <<good(TextCharger), good(TextMug), Null>>, <<Null, Null, good(TextMug)>>,
                  <<Null, bad, bad>> }
    IN  {[scripts |-> IF pg.pageData = Null THEN <<>>
                      ELSE << <<[valid |-> TRUE, value |-> pg.pageData], Null, Null>> >>]
            @@ [pg EXCEPT !.pageData = Null] : pg \in embedded}
        \cup {[scripts |-> <<a, b>>, pageData |-> Null, h1 |-> TextProduct,
               productTitle |-> <<>>, titleTag |-> TextDash, body |-> BodyUs, imgs |-> <<>>] :
                 a \in tags, b \in tags}

\* scrapeAliExpress, the scan of the script tags: in each tag the patterns
\* are tried in order, a match JSON.parse rejects is passed over, the first
\* match it accepts is assigned to pageData and ends the patterns of that
\* tag (break); the scan then goes on to the next tag.
ScanScripts(pg) ==
    LET parsedIn(script) == {k \in 1..Len(script) : script[k] # Null /\ script[k].valid}
        scanTag(pageData, script) ==
            IF parsedIn(script) = {} THEN pageData
            ELSE script[CHOOSE k \in parsedIn(script) : \A l \in parsedIn(script) : k <= l].value
        scanned[i \in 0..Len(pg.scripts)] ==
            IF i = 0 THEN pg.pageData ELSE scanTag(scanned[i - 1], pg.scripts[i])
    IN  [pg EXCEPT !.pageData = scanned[Len(pg.scripts)]]

\* The texts of the first element of each of the five price selectors.
AmazonPriceEls ==
    { <<PriceNone, PriceNone, PriceNone, PriceNone, PriceNone>>,
      <<PriceDollar, PriceNone, PriceNone, PriceNone, PriceNone>>,
      << <<"$","1",",","2","9","9",".","0","0">>, PriceNone, PriceNone, PriceNone, PriceNone>>,
      <<PriceNone, PriceNone, PriceWord, <<"1","2">>, PriceNone>>,
      <<PriceNone, PriceNone, PriceNone, PriceNone, PriceZero>> }

AmazonPages ==
    {[productTitle |-> t, h1 |-> <<>>, priceEls |-> e,
      mainImg |-> <<>>, thumbs |-> <<>>, hiRes |-> <<>>] :
        t \in PageTitleTexts,
        e \in { <<PriceNone, PriceNone, PriceNone, PriceNone, PriceNone>>,
                <<PriceDollar, PriceNone, PriceNone, PriceNone, PriceNone>> }}
    \cup {[productTitle |-> <<>>, h1 |-> h, priceEls |-> e,
           mainImg |-> <<>>, thumbs |-> <<>>, hiRes |-> <<>>] :
        h \in {<<>>, TextCharger}, e \in AmazonPriceEls}
    \cup {[productTitle |-> TextCharger, h1 |-> <<>>,
           priceEls |-> <<PriceDollar, PriceNone, PriceNone, PriceNone, PriceNone>>,
           mainImg |-> m, thumbs |-> l, hiRes |-> h] :
        m \in {<<>>, ImageSrcs.amazonThumb}, l \in ImageLists,
        h \in {<<>>, <<ImageSrcs.amazonLarge, ImageSrcs.second>>}}

AlibabaPages ==
    {[heading |-> t, titleTag |-> TextDash, priceText |-> q, imgs |-> <<>>] :
        t \in PageTitleTexts, q \in {PriceNone, PriceUs}}
    \cup {[heading |-> <<>>, titleTag |-> g, priceText |-> q, imgs |-> <<>>] :
        g \in {<<>>, TextDash, TextNotFound},
        q \in {PriceNone, PriceZero, PriceComma, PriceWord}}
    \cup {[heading |-> TextCharger, titleTag |-> TextDash, priceText |-> PriceUs, imgs |-> l] :
        l \in ImageLists}

GenericPages ==
    {[h1 |-> t, itemName |-> <<>>, titleTag |-> TextDash, priceContent |-> Undefined,
      priceText |-> q, imgs |-> <<>>] : t \in PageTitleTexts, q \in {PriceNone, PriceUs}}
    \cup {[h1 |-> <<>>, itemName |-> n, titleTag |-> g, priceContent |-> c, priceText |-> q,
           imgs |-> <<>>] :
        n \in {<<>>, TextMug}, g \in {<<>>, TextNotFound},
        c \in {Undefined, Str(<<>>), Str(Price1299)},
        q \in {PriceNone, PriceZero, PriceComma, PriceWord}}
    \cup {[h1 |-> TextCharger, itemName |-> <<>>, titleTag |-> TextDash,
           priceContent |-> Undefined, priceText |-> PriceUs, imgs |-> l] : l \in ImageLists}
    \* a page with an <h1>, microdata name and price, and a .price element
    \cup {[h1 |-> TextCharger, itemName |-> TextMug, titleTag |-> TextDash,
           priceContent |-> Str(Price1299), priceText |-> Price999, imgs |-> <<>>]}

---------------------------------------------------------------------------
\* The demo product.

DemoTitle == <<"P","r","e","m","i","u","m"," ","W","i","r","e","l","e","s","s"," ",
               "B","l","u","e","t","o","o","t","h"," ","E","a","r","b","u","d","s"," ",
               "P","r","o">>

FallbackTitle == <<"P","r","e","m","i","u","m"," ","W","i","r","e","l","e","s","s"," ",
                   "E","a","r","b","u","d","s"," ","-"," ","A","c","t","i","v","e"," ",
                   "N","o","i","s","e"," ","C","a","n","c","e","l","l","i","n","g">>

\* The hardcoded fields of the demo product.
DemoFields ==
    [ title |-> Str(DemoTitle),
      price |-> Num(4999), originalPrice |-> Num(12999), currency |-> "USD",
      images |-> <<
          \* https://images.unsplash.com/photo-1590658268037-6bf12165a8df?w=800&q=80
          <<"h","t","t","p","s",":","/","/","i","m","a","g","e","s",".","u","n","s","p","l","a","s","h",".","c","o","m","/","p","h","o","t","o","-","1","5","9","0","6","5","8","2","6","8","0","3","7","-","6","b","f","1","2","1","6","5","a","8","d","f","?","w","=","8","0","0","&","q","=","8","0">>,
          \* https://images.unsplash.com/photo-1598371839696-5c5bb00bdc28?w=800&q=80
          <<"h","t","t","p","s",":","/","/","i","m","a","g","e","s",".","u","n","s","p","l","a","s","h",".","c","o","m","/","p","h","o","t","o","-","1","5","9","8","3","7","1","8","3","9","6","9","6","-","5","c","5","b","b","0","0","b","d","c","2","8","?","w","=","8","0","0","&","q","=","8","0">>,
          \* https://images.unsplash.com/photo-1606220588913-b3aacb4d2f46?w=800&q=80
          <<"h","t","t","p","s",":","/","/","i","m","a","g","e","s",".","u","n","s","p","l","a","s","h",".","c","o","m","/","p","h","o","t","o","-","1","6","0","6","2","2","0","5","8","8","9","1","3","-","b","3","a","a","c","b","4","d","2","f","4","6","?","w","=","8","0","0","&","q","=","8","0">>,
          \* https://images.unsplash.com/photo-1484704849700-f032a568e944?w=800&q=80
          <<"h","t","t","p","s",":","/","/","i","m","a","g","e","s",".","u","n","s","p","l","a","s","h",".","c","o","m","/","p","h","o","t","o","-","1","4","8","4","7","0","4","8","4","9","7","0","0","-","f","0","3","2","a","5","6","8","e","9","4","4","?","w","=","8","0","0","&","q","=","8","0">> >>,
      description |-> "Experience premium sound quality with our latest wireless earbuds featuring advanced active noise cancellation.",
      bullets |-> << "Active Noise Cancellation blocks 98% of ambient noise",
                     "40-hour total battery life with wireless charging case",
                     "Premium 12mm audio drivers for rich sound",
                     "IPX5 water & sweat resistant",
                     "Touch controls for music & calls",
                     "Bluetooth 5.3 connectivity" >>,
      variants |-> << [name |-> "Color",
                       options |-> << [name |-> "Midnight Black"], [name |-> "Pearl White"],
                                      [name |-> "Rose Gold"] >>] >>,
      specifications |-> << [key |-> "Battery Life", value |-> "8 hours (40 with case)"],
                            [key |-> "Bluetooth", value |-> "5.3"],
                            [key |-> "Driver Size", value |-> "12mm"],
                            [key |-> "Water Resistance", value |-> "IPX5"] >>,
      rating |-> Num(480), reviewCount |-> Num(1284700) ]

\* getDemoProduct whose review count moves with the clock
getDemoProduct_live(u, p, t) ==
    [platform |-> p, url |-> u, scrapedAt |-> t, isDemo |-> TRUE]
        @@ [DemoFields EXCEPT !.reviewCount = Num(1284700 + t)]

\* getDemoProduct whose title is an error notice carrying "404"
getDemoProduct_404(u, p, t) ==
    [platform |-> p, url |-> u, scrapedAt |-> t, isDemo |-> TRUE]
        @@ [DemoFields EXCEPT !.title = Str(TextError404)]

\* getDemoProduct whose title follows the platform
getDemoProduct_perPlatform(u, p, t) ==
    [platform |-> p, url |-> u, scrapedAt |-> t, isDemo |-> TRUE]
        @@ [DemoFields EXCEPT !.title = Str(IF p = "amazon" THEN TextCharger ELSE DemoTitle)]

\* getDemoProduct(url, platform), called at time t
getDemoProduct(u, p, t) ==
    [platform |-> p, url |-> u, scrapedAt |-> t, isDemo |-> TRUE] @@ DemoFields

\* scrapeFallback: the other demo record of the class, which scrape never uses
scrapeFallback(u, p, t) ==
    [ platform |-> p, url |-> u, title |-> Str(FallbackTitle),
      price |-> Num(4999), originalPrice |-> Num(9999), currency |-> "USD",
      images |-> <<
          \* https://images.unsplash.com/photo-1590658268037-6bf12165a8df?w=800
          <<"h","t","t","p","s",":","/","/","i","m","a","g","e","s",".","u","n","s","p","l","a","s","h",".","c","o","m","/","p","h","o","t","o","-","1","5","9","0","6","5","8","2","6","8","0","3","7","-","6","b","f","1","2","1","6","5","a","8","d","f","?","w","=","8","0","0">>,
          \* https://images.unsplash.com/photo-1598371839696-5c5bb00bdc28?w=800
          <<"h","t","t","p","s",":","/","/","i","m","a","g","e","s",".","u","n","s","p","l","a","s","h",".","c","o","m","/","p","h","o","t","o","-","1","5","9","8","3","7","1","8","3","9","6","9","6","-","5","c","5","b","b","0","0","b","d","c","2","8","?","w","=","8","0","0">>,
          \* https://images.unsplash.com/photo-1606220588913-b3aacb4d2f46?w=800
          <<"h","t","t","p","s",":","/","/","i","m","a","g","e","s",".","u","n","s","p","l","a","s","h",".","c","o","m","/","p","h","o","t","o","-","1","6","0","6","2","2","0","5","8","8","9","1","3","-","b","3","a","a","c","b","4","d","2","f","4","6","?","w","=","8","0","0">> >>,
      description |-> "Experience crystal-clear audio with our premium wireless earbuds featuring active noise cancellation.",
      bullets |-> << "Active Noise Cancellation",
                     "40-hour battery life with charging case",
                     "Premium audio drivers",
                     "IPX5 water resistant",
                     "Touch controls",
                     "Wireless charging compatible" >>,
      variants |-> << [name |-> "Color",
                       options |-> << [name |-> "Midnight Black"], [name |-> "Pearl White"],
                                      [name |-> "Rose Gold"] >>] >>,
      specifications |-> << [key |-> "Battery Life", value |-> "8 hours (40 with case)"],
                            [key |-> "Bluetooth", value |-> "5.3"],
                            [key |-> "Driver Size", value |-> "12mm"],
                            [key |-> "Noise Cancellation", value |-> "Active (ANC)"],
                            [key |-> "Water Resistance", value |-> "IPX5"] >>,
      rating |-> Num(480), reviewCount |-> Num(324700),
      scrapedAt |-> t, isDemo |-> TRUE ]

---------------------------------------------------------------------------
\* The extractors: the candidate each builds from what it fetched.
\* A candidate carries platform, productId, url, title, price, originalPrice,
\* currency, images, description and scrapedAt, each only where the
\* extractor sets it; bullets, variants, specifications, rating, reviewCount
\* and moq are left out of the records.  The entries of the image lists a
\* page or a JSON answer holds are strings; <<>> is a missing src attribute.

\* scrapeAliExpressAPI: data && data.item
ApiHasItem(data) == data # Null /\ data.item # Undefined

\* scrapeAliExpressAPI: the record returned for response.data = data
ApiCandidate(productId, data, t) ==
    LET item == data.item
    IN  [ platform |-> "aliexpress",
          productId |-> productId,
          title |-> item.title,
          price |-> ParseFloat(Or(Or(item.promotionPrice, item.price), Num(0))),
          originalPrice |-> ParseFloat(Or(item.price, Num(0))),
          currency |-> "USD",
          images |-> Or(item.images, Arr(<<>>)).val,
          description |-> "",
          scrapedAt |-> t ]

\* scrapeAliExpress, title: embedded data, h1, data-pl, <title> before "-"
AliTitle(pg) ==
    LET t1 == IF pg.pageData = Null THEN Undefined ELSE pg.pageData.pageTitle
        t2 == IF pg.pageData = Null THEN Undefined ELSE pg.pageData.subject
    IN  Or(Or(Or(Or(t1, t2), Str(Trim(pg.h1))), Str(Trim(pg.productTitle))),
           Str(Trim(SplitDashFirst(pg.titleTag))))

\* if (pageData?.priceModule)
AliHasPriceModule(pg) == pg.pageData # Null /\ pg.pageData.priceModule # Undefined

\* formatedActivityPrice?.replace(...) is reached and is no string: TypeError
AliPriceThrows(pg) ==
    /\ AliHasPriceModule(pg)
    /\ ~Truthy(pg.pageData.priceModule.minActivityAmount)
    /\ ~Truthy(pg.pageData.priceModule.minAmount)
    /\ pg.pageData.priceModule.formatedActivityPrice.kind \notin {"undefined", "null", "string"}

\* scrapeAliExpress, price before parseFloat
AliPriceText(pg) ==
    LET m == pg.pageData.priceModule
        fromModule ==
            IF AliHasPriceModule(pg)
            THEN Or(Or(m.minActivityAmount, m.minAmount),
                    IF m.formatedActivityPrice.kind = "string"
                    THEN Str(KeepChars(m.formatedActivityPrice.val, Digits \cup {"."}))
                    ELSE Undefined)
            ELSE Str(PriceZero)
    IN  IF fromModule = Str(PriceZero) /\ MatchUsDollar(pg.body) # Null
        THEN MatchUsDollar(pg.body)
        ELSE fromModule

\* scrapeAliExpress, images: pageData.imageModule.imagePathList, then the
\* <img> elements of the page.  Here and in the other extractors the loop
\* over a list is a function of the number of entries handled so far.
AliImages(pg) ==
    LET fromData(images, img) ==
            LET imgUrl == IF StartsWith(img, <<"/", "/">>)
                          THEN <<"h","t","t","p","s",":">> \o img ELSE img
            IN  IF ~ArrayIncludes(images, imgUrl) THEN Append(images, imgUrl) ELSE images
        fromHtml(images, src) ==
            IF /\ Includes(src, <<"a","l","i","c","d","n",".","c","o","m">>)
               /\ Includes(src, <<"h","t","t","p">>)
               /\ ~ArrayIncludes(images, src)
               /\ ~ArrayIncludes(images, ReplaceAliSize(src))
            THEN Append(images, ReplaceAliSize(src))
            ELSE images
        imagePathList == IF pg.pageData # Null /\ Truthy(pg.pageData.imagePathList)
                         THEN pg.pageData.imagePathList.val ELSE <<>>
        afterData[i \in 0..Len(imagePathList)] ==
            IF i = 0 THEN <<>> ELSE fromData(afterData[i - 1], imagePathList[i])
        afterHtml[i \in 0..Len(pg.imgs)] ==
            IF i = 0 THEN afterData[Len(imagePathList)]
            ELSE fromHtml(afterHtml[i - 1], pg.imgs[i])
    IN  afterHtml[Len(pg.imgs)]

\* scrapeAliExpress: the record returned
AliCandidate(u, pg, description, t) ==
    LET originalPrice == IF AliHasPriceModule(pg) THEN pg.pageData.priceModule.minAmount
                         ELSE Null
    IN  [ platform |-> "aliexpress",
          productId |-> ProductIdOf(u),
          url |-> u,
          title |-> Or(AliTitle(pg), Str(TextProduct)),
          price |-> Or(ParseFloat(AliPriceText(pg)), Num(0)),
          originalPrice |-> IF Truthy(originalPrice) THEN ParseFloat(originalPrice) ELSE Null,
          currency |-> "USD",
          images |-> Slice15(AliImages(pg)),
          description |-> description,
          scrapedAt |-> t ]

\* pageData?.descriptionModule?.descriptionUrl
AliHasDescriptionUrl(pg) == pg.pageData # Null /\ pg.pageData.descriptionUrl

\* scrapeAmazon, price: the first selector with a text, stripped to [\d.,]
AmazonPriceText(els) ==
    IF \E i \in 1..Len(els) : els[i] # <<>>
    THEN KeepChars(els[CHOOSE i \in 1..Len(els) :
                           els[i] # <<>> /\ \A j \in 1..(i - 1) : els[j] = <<>>],
                   PriceChars)
    ELSE PriceZero

\* scrapeAmazon, images: the main image, the thumbnails, then the hiRes
\* entries of the colorImages data
AmazonImages(pg) ==
    LET main == IF pg.mainImg # <<>> THEN <<ReplaceAmazonSize(pg.mainImg)>> ELSE <<>>
        thumb(images, src) ==
            IF src # <<>> /\ ~ArrayIncludes(images, ReplaceAmazonSize(src))
            THEN Append(images, ReplaceAmazonSize(src))
            ELSE images
        hiRes(images, img) ==
            IF img # <<>> /\ ~ArrayIncludes(images, img) THEN Append(images, img) ELSE images
        afterThumbs[i \in 0..Len(pg.thumbs)] ==
            IF i = 0 THEN main ELSE thumb(afterThumbs[i - 1], pg.thumbs[i])
        afterHiRes[i \in 0..Len(pg.hiRes)] ==
            IF i = 0 THEN afterThumbs[Len(pg.thumbs)]
            ELSE hiRes(afterHiRes[i - 1], pg.hiRes[i])
    IN  afterHiRes[Len(pg.hiRes)]

\* scrapeAmazon: the record returned
AmazonCandidate(u, pg, t) ==
    [ platform |-> "amazon",
      url |-> u,
      title |-> Or(Str(Trim(pg.productTitle)), Str(Trim(pg.h1))),
      price |-> Or(ParseFloatStr(AmazonPriceText(pg.priceEls)), Num(0)),
      currency |-> "USD",
      images |-> Slice15(AmazonImages(pg)),
      scrapedAt |-> t ]

\* priceMatch ? priceMatch[0] : "0.00", then price.replace(",", "")
MatchedPriceText(priceText) ==
    RemoveFirstComma(IF MatchPriceRun(priceText) # Null
                     THEN MatchPriceRun(priceText).val
                     ELSE PriceZero)

\* scrapeAlibaba, images: the src is looked up as found and pushed rewritten
AlibabaImages(pg) ==
    LET push(images, src) ==
            IF src # <<>> /\ ~ArrayIncludes(images, src)
            THEN Append(images, IF StartsWith(src, <<"/", "/">>)
                                THEN <<"h","t","t","p","s",":">> \o src ELSE src)
            ELSE images
        pushed[i \in 0..Len(pg.imgs)] ==
            IF i = 0 THEN <<>> ELSE push(pushed[i - 1], pg.imgs[i])
    IN  pushed[Len(pg.imgs)]

\* scrapeAlibaba: the record returned
AlibabaCandidate(u, pg, t) ==
    [ platform |-> "alibaba",
      url |-> u,
      title |-> Or(Str(Trim(pg.heading)), Str(Trim(SplitDashFirst(pg.titleTag)))),
      price |-> Or(ParseFloatStr(MatchedPriceText(pg.priceText)), Num(0)),
      currency |-> "USD",
      images |-> Slice15(AlibabaImages(pg)),
      scrapedAt |-> t ]

\* scrapeGeneric, images: data: uris skipped, other srcs resolved against url
GenericImages(u, pg) ==
    LET push(images, src) ==
            IF src # <<>> /\ ~StartsWith(src, <<"d","a","t","a",":">>)
            THEN LET abs == IF ~StartsWith(src, <<"h","t","t","p">>)
                            THEN ResolveUrl(src, u) ELSE src
                 IN  IF ~ArrayIncludes(images, abs) THEN Append(images, abs) ELSE images
            ELSE images
        pushed[i \in 0..Len(pg.imgs)] ==
            IF i = 0 THEN <<>> ELSE push(pushed[i - 1], pg.imgs[i])
    IN  pushed[Len(pg.imgs)]

\* scrapeGeneric: the record returned
GenericCandidate(u, pg, t) ==
    [ platform |-> "generic",
      url |-> u,
      title |-> Or(Or(Str(Trim(pg.h1)), Str(Trim(pg.itemName))), Str(Trim(pg.titleTag))),
      price |-> Or(ParseFloatStr(MatchedPriceText(Or(pg.priceContent, Str(pg.priceText)).val)),
                   Num(0)),
      currency |-> "USD",
      images |-> Slice15(GenericImages(u, pg)),
      scrapedAt |-> t ]

---------------------------------------------------------------------------
\* scrape: the validity test and the catch block.

\* result.title.includes("404") on a string or an array
TitleIncludes404(title) ==
    IF title.kind = "string" THEN Includes(title.val, Text404)
    ELSE \E i \in 1..Len(title.val) : title.val[i] = Str(Text404)

\* the validity test with the length test off by one (<= 5)
InvalidData_offByOne(c) ==
    IF ~Truthy(c.title) THEN "true"
    ELSE IF c.title.kind \notin {"string", "array"} THEN "TypeError"
    ELSE IF TitleIncludes404(c.title) THEN "true"
    ELSE IF Len(c.title.val) <= 5 THEN "true"
    ELSE IF c.price = Num(0) THEN "true"
    ELSE "false"

\* The condition of scrape's if, evaluated left to right: "true", "false",
\* or "TypeError" when title has no includes method (a number, true, an object).
InvalidData(c) ==
    IF ~Truthy(c.title) THEN "true"
    ELSE IF c.title.kind \notin {"string", "array"} THEN "TypeError"
    ELSE IF TitleIncludes404(c.title) THEN "true"
    ELSE IF Len(c.title.val) < 5 THEN "true"
    ELSE IF c.price = Num(0) THEN "true"
    ELSE "false"

\* a catch block that logs and throws the error on
CatchBlock_rethrow(err, u, p, t) ==
    [outcome |-> "thrown", value |-> Undefined, error |-> err]

\* a catch block that answers with scrapeFallback's record
CatchBlock_fallback(err, u, p, t) ==
    [outcome |-> "returned", value |-> scrapeFallback(u, p, t), error |-> err]

\* catch (error) { ...; return this.getDemoProduct(url, platform); }
CatchBlock(err, u, p, t) ==
    [outcome |-> "returned", value |-> getDemoProduct(u, p, t), error |-> err]

\* an accepting branch that stamps the demo flag
Accepted_stamped(c) == [isDemo |-> FALSE] @@ c

\* return result
Accepted(c) == c

\* How scrape completes once its extractor has returned candidate c
\* (err = "none") or thrown err.
Completion(c, err, u, p, t) ==
    IF err # "none" THEN CatchBlock(err, u, p, t)
    ELSE IF InvalidData(c) = "TypeError" THEN CatchBlock("TypeError", u, p, t)
    ELSE IF InvalidData(c) = "true"
    THEN [outcome |-> "returned", value |-> getDemoProduct(u, p, t), error |-> "none"]
    ELSE [outcome |-> "returned", value |-> Accepted(c), error |-> "none"]

\* record.isDemo is true
IsDemo(r) == "isDemo" \in DOMAIN r /\ r.isDemo = TRUE

---------------------------------------------------------------------------
\* The state machine of one scrape run.

Unset == "unset"

Init ==
    /\ pc = "idle"
    /\ now = 0
    /\ url = <<>>
    /\ platform = Unset
    /\ result = Undefined
    /\ error = "none"
    /\ ret = Undefined
    /\ outcome = "none"
    /\ fetches = <<>>
    /\ kept = Undefined
    /\ page = Undefined
    /\ other = <<>>
    /\ otherPlatform = Unset
    /\ body = Undefined
    /\ status = 0
    /\ suspended = Undefined
    /\ build = [pc |-> "idle", requests |-> <<>>, outcome |-> "none"]
    /\ wizard = [step |-> "input", url |-> <<>>, error |-> Null, productData |-> Null,
                 generatedContent |-> Null, buildResult |-> Null]

\* axios.get as the extractors call it: what is fetched and the timeout
\* option in milliseconds, 0 (the default of axios: no timeout) where the
\* call passes none.
Fetch(kind, p) ==
    [ to |-> kind,
      timeout |-> IF kind = "api" THEN 10000
                  ELSE IF kind = "description" THEN 0
                  ELSE IF p \in {"aliexpress", "amazon", "alibaba"} THEN 20000
                  ELSE 15000 ]

\* response.data of a fetch: any of the answers S the model holds for it.
\* Where two runs are interleaved (suspended is set) the answers are those
\* of a few pages: no answer body, no item, "Wireless Charger" with or
\* without a price, and pages titled "Wireless Charger" without images.
Served(S) ==
    LET smallPage(pg) ==
            \/ pg \in {Undefined, Null}
            \/ /\ "item" \in DOMAIN pg
               /\ \/ pg.item = Undefined
                  \/ /\ pg.item.title \in {Str(TextCharger), Str(<<>>)}
                     /\ pg.item.promotionPrice \in {Undefined, Num(1299)}
                     /\ pg.item.price = Num(2599)
                     /\ pg.item.images = Undefined
            \/ /\ "scripts" \in DOMAIN pg
               /\ pg.imgs = <<>>
               /\ \/ pg.scripts = <<>> /\ pg.h1 = TextCharger
                  \/ /\ Len(pg.scripts) = 1
                     /\ pg.scripts[1][1].value.pageTitle = Str(TextCharger)
                     /\ pg.scripts[1][1].value.subject = Undefined
                     /\ pg.scripts[1][1].value.priceModule # Undefined
                     /\ pg.scripts[1][1].value.priceModule.minActivityAmount = Num(1299)
            \/ "priceEls" \in DOMAIN pg /\ pg.productTitle = TextCharger /\ pg.thumbs = <<>>
            \/ "heading" \in DOMAIN pg /\ pg.heading = TextCharger /\ pg.imgs = <<>>
            \/ "itemName" \in DOMAIN pg /\ pg.h1 = TextCharger /\ pg.imgs = <<>>
    IN  IF suspended = Undefined THEN S ELSE {pg \in S : smallPage(pg)}

\* a scrapeAliExpress that goes to the page without asking the API
Begin_pageFirst(u) ==
    /\ url' = u
    /\ platform' = detectPlatform(u)
    /\ pc' = "await_page"
    /\ fetches' = <<Fetch("page", detectPlatform(u))>>
    /\ result' = Undefined
    /\ error' = "none"
    /\ ret' = Undefined
    /\ outcome' = "none"
    /\ page' = Undefined
    /\ body' = Str(u)
    /\ status' = 0
    /\ UNCHANGED <<now, other, otherPlatform, suspended, build, wizard>>

\* The handler of POST /api/scrape called scrape(u) with a string (body is
\* the url of the request).  scrape(u) up to its first await: detectPlatform,
\* the switch, and the extractor's first fetch (scrapeAliExpress asks the
\* mobile API first when the url carries a product id).
Begin(u) ==
    /\ url' = u
    /\ platform' = detectPlatform(u)
    /\ IF detectPlatform(u) = "aliexpress" /\ ProductIdOf(u) # Null
       THEN pc' = "await_api" /\ fetches' = <<Fetch("api", detectPlatform(u))>>
       ELSE pc' = "await_page" /\ fetches' = <<Fetch("page", detectPlatform(u))>>
    /\ result' = Undefined
    /\ error' = "none"
    /\ ret' = Undefined
    /\ outcome' = "none"
    /\ page' = Undefined
    /\ body' = Str(u)
    /\ status' = 0
    /\ UNCHANGED <<now, other, otherPlatform, suspended, build, wizard>>

\* a scrape that answers an extractor failure by fetching the page again
Finish_retry(c, err, data) ==
    LET done == Completion(c, err, url, platform, now)
    IN  IF err # "none"
        THEN /\ pc' = "await_page"
             /\ fetches' = Append(fetches, Fetch("page", platform))
             /\ UNCHANGED <<now, url, platform, result, error, ret, outcome, kept, page,
                            other, otherPlatform, body, status, suspended, build, wizard>>
        ELSE /\ pc' = "done"
             /\ result' = c
             /\ error' = done.error
             /\ ret' = done.value
             /\ outcome' = done.outcome
             /\ page' = data
             /\ status' = 200
             /\ UNCHANGED <<now, url, platform, fetches, kept, other, otherPlatform, body,
                suspended, build, wizard>>

\* scrape returns or throws: the extractor handed back c or threw err.  The
\* handler awaiting it answers 200 with the record, or 500 from its catch.
Finish(c, err, data) ==
    LET done == Completion(c, err, url, platform, now)
    IN  /\ pc' = "done"
        /\ result' = c
        /\ error' = done.error
        /\ ret' = done.value
        /\ outcome' = done.outcome
        /\ page' = data
        /\ status' = IF done.outcome = "returned" THEN 200 ELSE 500
        /\ UNCHANGED <<now, url, platform, fetches, kept, other, otherPlatform, body,
                suspended, build, wizard>>

\* scrapeAliExpress gives up on the API, whose fetch failed (data is
\* Undefined) or answered data, and fetches the page.
FetchPage(data) ==
    /\ pc' = "await_page"
    /\ fetches' = Append(fetches, Fetch("page", platform))
    /\ page' = data
    /\ UNCHANGED <<now, url, platform, result, error, ret, outcome, kept,
                   other, otherPlatform, body, status, suspended, build, wizard>>

\* A caller invokes scrape(u).
Scrape ==
    /\ pc = "idle"
    /\ \E u \in RunUrls : Begin(u)
    /\ UNCHANGED kept

\* a scrapeAliExpress that fetches the page whatever the API answered
AliExpressAPIResponds_alwaysPage ==
    /\ pc = "await_api"
    /\ \E data \in ApiResponses : FetchPage(data)

\* The mobile API answers (scrapeAliExpressAPI and the try around it).
AliExpressAPIResponds ==
    /\ pc = "await_api"
    /\ \/ \E e \in FetchErrors : FetchPage(Undefined)
       \/ \E data \in Served(ApiResponses) :
            /\ ~ApiHasItem(data)
            /\ FetchPage(data)
       \/ \E data \in Served(ApiResponses) :
            /\ ApiHasItem(data)
            /\ ~Truthy(ApiCandidate(ProductIdOf(url).val, data, now).title)
            /\ FetchPage(data)
       \/ \E data \in Served(ApiResponses) :
            /\ ApiHasItem(data)
            /\ Truthy(ApiCandidate(ProductIdOf(url).val, data, now).title)
            /\ Finish(ApiCandidate(ProductIdOf(url).val, data, now), "none", data)

\* The AliExpress page answers (scrapeAliExpress from its axios.get on).
AliExpressPageResponds ==
    /\ pc = "await_page"
    /\ platform = "aliexpress"
    /\ \/ \E e \in FetchErrors : Finish(Undefined, e, Undefined)
       \/ \E raw \in Served(AliPages) : LET pg == ScanScripts(raw) IN
            /\ AliPriceThrows(pg)
            /\ Finish(Undefined, "TypeError", pg)
       \/ \E raw \in Served(AliPages) : LET pg == ScanScripts(raw) IN
            /\ ~AliPriceThrows(pg)
            /\ AliHasDescriptionUrl(pg)
            /\ pc' = "await_desc"
            /\ page' = pg
            /\ fetches' = Append(fetches, Fetch("description", platform))
            /\ UNCHANGED <<now, url, platform, result, error, ret, outcome, kept,
                           other, otherPlatform, body, status, suspended, build, wizard>>
       \/ \E raw \in Served(AliPages) : LET pg == ScanScripts(raw) IN
            /\ ~AliPriceThrows(pg)
            /\ ~AliHasDescriptionUrl(pg)
            /\ Finish(AliCandidate(url, pg, "", now), "none", pg)

\* The description sub-fetch answers or fails (its catch is empty).
AliExpressDescriptionResponds ==
    /\ pc = "await_desc"
    /\ \/ Finish(AliCandidate(url, page, "<description>", now), "none", page)
       \/ \E e \in FetchErrors : Finish(AliCandidate(url, page, "", now), "none", page)

\* The Amazon page answers (scrapeAmazon).
AmazonResponds ==
    /\ pc = "await_page"
    /\ platform = "amazon"
    /\ \/ \E e \in FetchErrors : Finish(Undefined, e, Undefined)
       \/ \E pg \in Served(AmazonPages) : Finish(AmazonCandidate(url, pg, now), "none", pg)

\* The Alibaba page answers (scrapeAlibaba).
AlibabaResponds ==
    /\ pc = "await_page"
    /\ platform = "alibaba"
    /\ \/ \E e \in FetchErrors : Finish(Undefined, e, Undefined)
       \/ \E pg \in Served(AlibabaPages) : Finish(AlibabaCandidate(url, pg, now), "none", pg)

\* Any other page answers (scrapeGeneric, the default of the switch).
GenericResponds ==
    /\ pc = "await_page"
    /\ platform \notin {"aliexpress", "amazon", "alibaba"}
    /\ \/ \E e \in FetchErrors : Finish(Undefined, e, Undefined)
       \/ \E pg \in Served(GenericPages) : Finish(GenericCandidate(url, pg, now), "none", pg)

\* The clock advances while the run waits for a fetch or no run is active.
Tick ==
    /\ pc \in {"idle", "await_api", "await_page", "await_desc"}
    /\ now < MaxTime
    /\ now' = now + 1
    /\ UNCHANGED <<pc, url, platform, result, error, ret, outcome, fetches, kept,
                   page, other, otherPlatform, body, status, suspended, build, wizard>>

\* The caller, handed a demo record, keeps it and invokes scrape again on
\* the same url.
ScrapeAgain ==
    /\ pc = "done"
    /\ outcome = "returned"
    /\ IsDemo(ret)
    /\ kept = Undefined
    /\ kept' = ret
    /\ Begin(url)

\* The caller is done with the record; the next request may come.
Respond ==
    /\ pc = "done"
    /\ pc' = "idle"
    /\ url' = <<>>
    /\ platform' = Unset
    /\ result' = Undefined
    /\ error' = "none"
    /\ ret' = Undefined
    /\ outcome' = "none"
    /\ fetches' = <<>>
    /\ kept' = Undefined
    /\ page' = Undefined
    /\ body' = Undefined
    /\ status' = 0
    /\ UNCHANGED <<now, other, otherPlatform, suspended, build, wizard>>

Next ==
    \/ Scrape
    \/ AliExpressAPIResponds
    \/ AliExpressPageResponds
    \/ AliExpressDescriptionResponds
    \/ AmazonResponds
    \/ AlibabaResponds
    \/ GenericResponds
    \/ Tick
    \/ ScrapeAgain
    \/ Respond

Spec == Init /\ [][Next]_vars

---------------------------------------------------------------------------
\* Fetches that carry a timeout settle.

\* The fetch the run is waiting for was issued with a timeout and is
\* answered, or fails (at the latest when the timeout expires).
TimedFetchAnswers ==
    /\ fetches # <<>>
    /\ fetches[Len(fetches)].timeout > 0
    /\ \/ AliExpressAPIResponds
       \/ AliExpressPageResponds
       \/ AliExpressDescriptionResponds
       \/ AmazonResponds
       \/ AlibabaResponds
       \/ GenericResponds

SpecLive == Spec /\ WF_vars(TimedFetchAnswers)

---------------------------------------------------------------------------
\* Two scrape runs on one event loop.  A run executes without interruption
\* from one await to the next (the steps above); while it waits the loop may
\* resume the other run.  The variables of a run are the locals of scrape,
\* of its extractor and of the handler that called it (each request
\* constructs its own ProductScraper); the clock is the only variable both
\* runs read.

\* The locals of the run the loop is executing.
Locals ==
        [ pc |-> pc,
          url |-> url,
          platform |-> platform,
          result |-> result,
          error |-> error,
          ret |-> ret,
          outcome |-> outcome,
          fetches |-> fetches,
          kept |-> kept,
          page |-> page,
          body |-> body,
          status |-> status ]

\* an event loop whose runs share `platform` (a field of one scraper object)
Switch_sharedPlatform ==
    /\ suspended # Undefined
    /\ LET next == suspended
       IN
        /\ suspended' = Locals
        /\ pc' = next.pc
        /\ url' = next.url
        /\ result' = next.result
        /\ error' = next.error
        /\ ret' = next.ret
        /\ outcome' = next.outcome
        /\ fetches' = next.fetches
        /\ kept' = next.kept
        /\ page' = next.page
        /\ body' = next.body
        /\ status' = next.status
        /\ UNCHANGED <<platform, now, other, otherPlatform, build, wizard>>

\* The loop leaves the run it was executing at its await (or finished, or
\* not yet called) and resumes the other one.
Switch ==
    /\ suspended # Undefined
    /\ LET next == suspended
       IN
        /\ suspended' = Locals
        /\ pc' = next.pc
        /\ url' = next.url
        /\ platform' = next.platform
        /\ result' = next.result
        /\ error' = next.error
        /\ ret' = next.ret
        /\ outcome' = next.outcome
        /\ fetches' = next.fetches
        /\ kept' = next.kept
        /\ page' = next.page
        /\ body' = next.body
        /\ status' = next.status
        /\ UNCHANGED <<now, other, otherPlatform, build, wizard>>

\* A step of the running run or a switch to the other run.
NextRuns ==
    \/ Scrape
    \/ AliExpressAPIResponds
    \/ AliExpressPageResponds
    \/ AliExpressDescriptionResponds
    \/ AmazonResponds
    \/ AlibabaResponds
    \/ GenericResponds
    \/ Tick
    \/ Respond
    \/ Switch

\* Both runs not yet called: the locals of the second are those of the first.
InitRuns ==
    /\ pc = "idle"
    /\ now = 0
    /\ url = <<>>
    /\ platform = Unset
    /\ result = Undefined
    /\ error = "none"
    /\ ret = Undefined
    /\ outcome = "none"
    /\ fetches = <<>>
    /\ kept = Undefined
    /\ page = Undefined
    /\ other = <<>>
    /\ otherPlatform = Unset
    /\ body = Undefined
    /\ status = 0
    /\ suspended = Locals
    /\ build = Undefined
    /\ wizard = Undefined

SpecRuns == InitRuns /\ [][NextRuns]_vars

---------------------------------------------------------------------------
\* POST /api/scrape with whatever JSON value the request body holds as url.

\* The values of req.body.url that are no non-empty string.
RequestUrls ==
    { Undefined, Null, Str(<<>>), Num(0), Bool(FALSE),
      Num(4200), Bool(TRUE), Obj, Arr(<<>>), Arr(<<Str(UrlAmazon)>>) }

\* if (!url) return res.status(400): scrape is not called.
PostScrapeWithoutUrl ==
    /\ pc = "idle"
    /\ \E v \in RequestUrls :
         /\ ~Truthy(v)
         /\ body' = v
    /\ pc' = "done"
    /\ status' = 400
    /\ UNCHANGED <<now, url, platform, result, error, ret, outcome, fetches, kept,
                   page, other, otherPlatform, suspended, build, wizard>>

\* scrape(url) with a truthy url that is no string: url.toLowerCase is not a
\* function, detectPlatform throws a TypeError before scrape's try, the
\* promise of scrape rejects and the catch of the handler answers 500.
PostScrapeNotString ==
    /\ pc = "idle"
    /\ \E v \in RequestUrls :
         /\ Truthy(v)
         /\ v.kind # "string"
         /\ body' = v
    /\ pc' = "done"
    /\ outcome' = "thrown"
    /\ error' = "TypeError"
    /\ status' = 500
    /\ UNCHANGED <<now, url, platform, result, ret, fetches, kept, page, other,
                   otherPlatform, suspended, build, wizard>>

NextHandler ==
    \/ Next
    \/ PostScrapeWithoutUrl
    \/ PostScrapeNotString

SpecHandler == Init /\ [][NextHandler]_vars

---------------------------------------------------------------------------
\* StoreBuilder.build (src/unnamed/part_001).  `build` holds one run: its
\* position (the request it awaits), its arguments (images is
\* productData.images.length, content the fields of content the steps test),
\* the requests it has issued in order, results.product, the number of
\* images uploaded, the metafields still to write, results.themeSettings
\* (set or not), the number of pages created, and how it ended.

\* build goes on with `step` and the steps after it: it issues the first
\* request one of them has, or returns its result when none has any.
RECURSIVE Proceed(_, _)
Proceed(b, step) ==
    LET issue(at, request) ==
            [b EXCEPT !.pc = at, !.requests = Append(b.requests, request)]
        metafields ==
            (IF b.content.urgencyMessage THEN <<"urgency_message">> ELSE <<>>)
            \o (IF b.content.faq THEN <<"faq">> ELSE <<>>)
    IN  CASE step = "uploadProductImages" ->
                IF b.images > 0
                THEN [issue("image", "POST products/id/images") EXCEPT !.i = 1]
                ELSE Proceed(b, "setProductMetafields")
          [] step = "setProductMetafields" ->
                IF metafields # <<>>
                THEN [issue("metafield", "POST products/id/metafields")
                        EXCEPT !.metafields = metafields]
                ELSE Proceed(b, "configureTheme")
          [] step = "configureTheme" -> issue("themes", "GET themes")
          [] step = "createPages" ->
                IF b.content.faq THEN issue("faq", "POST pages")
                ELSE Proceed(b, "about")
          [] step = "about" ->
                IF b.content.story THEN issue("about", "POST pages")
                ELSE Proceed(b, "return")
          [] OTHER -> [b EXCEPT !.pc = "done", !.outcome = "returned"]

\* build(productData, content) up to its first await: createProduct posts
\* the product, or throws before it does when content is undefined.
Build ==
    /\ build.pc \in {"idle", "done"}
    /\ \/ \E n \in 0..MaxProductImages, c \in [urgencyMessage : BOOLEAN, faq : BOOLEAN,
                                                story : BOOLEAN, announcementBar : BOOLEAN] :
            build' = [pc |-> "createProduct", images |-> n, content |-> c,
                      requests |-> <<"POST products">>, product |-> Null, i |-> 0,
                      uploaded |-> 0, metafields |-> <<>>, themeSettings |-> Null,
                      pages |-> 0, outcome |-> "none", error |-> "none"]
       \/ build' = [pc |-> "done", images |-> 0, content |-> Undefined,
                    requests |-> <<>>, product |-> Null, i |-> 0,
                    uploaded |-> 0, metafields |-> <<>>, themeSettings |-> Null,
                    pages |-> 0, outcome |-> "thrown", error |-> "TypeError"]
    /\ UNCHANGED <<pc, now, url, platform, result, error, ret, outcome, fetches, kept,
                   page, other, otherPlatform, body, status, suspended, wizard>>

\* POST products is answered.  A failure rejects build with that error; a
\* body with the product lets build go on; a body without one makes
\* results.product.id throw.
CreateProductResponds ==
    /\ build.pc = "createProduct"
    /\ \/ \E e \in FetchErrors :
            build' = [build EXCEPT !.pc = "done", !.outcome = "thrown", !.error = e]
       \/ build' = Proceed([build EXCEPT !.product = Obj], "uploadProductImages")
       \/ build' = [build EXCEPT !.pc = "done", !.product = Undefined,
                                  !.outcome = "thrown", !.error = "TypeError"]
    /\ UNCHANGED <<pc, now, url, platform, result, error, ret, outcome, fetches, kept,
                   page, other, otherPlatform, body, status, suspended, wizard>>

\* an uploadProductImages without the try around each upload
UploadProductImagesResponds_abort ==
    /\ build.pc = "image"
    /\ \E ok \in BOOLEAN :
         build' = IF ~ok
                  THEN [build EXCEPT !.pc = "done", !.outcome = "thrown", !.error = "status 404"]
                  ELSE LET b == [build EXCEPT !.uploaded = @ + 1]
                       IN  IF b.i < (IF b.images < 10 THEN b.images ELSE 10)
                           THEN [b EXCEPT !.i = @ + 1,
                                          !.requests = Append(@, "POST products/id/images")]
                           ELSE Proceed(b, "setProductMetafields")
    /\ UNCHANGED <<pc, now, url, platform, result, error, ret, outcome, fetches, kept,
                   page, other, otherPlatform, body, status, suspended, wizard>>

\* The upload of image i is answered or fails (caught and logged); the loop
\* goes on to the next of the first 10 images.
UploadProductImagesResponds ==
    /\ build.pc = "image"
    /\ \E ok \in BOOLEAN :
         LET b == [build EXCEPT !.uploaded = IF ok THEN @ + 1 ELSE @]
         IN  build' = IF b.i < (IF b.images < 10 THEN b.images ELSE 10)
                      THEN [b EXCEPT !.i = @ + 1,
                                     !.requests = Append(@, "POST products/id/images")]
                      ELSE Proceed(b, "setProductMetafields")
    /\ UNCHANGED <<pc, now, url, platform, result, error, ret, outcome, fetches, kept,
                   page, other, otherPlatform, body, status, suspended, wizard>>

\* The write of a metafield is answered or fails (caught and logged).
SetProductMetafieldsResponds ==
    /\ build.pc = "metafield"
    /\ \E ok \in BOOLEAN :
         LET b == [build EXCEPT !.metafields = Tail(@)]
         IN  build' = IF b.metafields # <<>>
                      THEN [b EXCEPT !.requests = Append(@, "POST products/id/metafields")]
                      ELSE Proceed(b, "configureTheme")
    /\ UNCHANGED <<pc, now, url, platform, result, error, ret, outcome, fetches, kept,
                   page, other, otherPlatform, body, status, suspended, wizard>>

\* A request of configureTheme or of updateAnnouncementBar is answered or
\* fails.  configureTheme returns null from its catch, or when no theme has
\* the role main; updateAnnouncementBar catches its own failures.
ConfigureThemeResponds ==
    LET issue(at, request) ==
            [build EXCEPT !.pc = at, !.requests = Append(build.requests, request)]
        configured == Proceed([build EXCEPT !.themeSettings = Obj], "createPages")
        null == Proceed(build, "createPages")
    IN  /\ \/ /\ build.pc = "themes"
              /\ build' \in {null, issue("settings", "GET themes/id/assets")}
           \/ /\ build.pc = "settings"
              /\ build' \in {null, issue("put", "PUT themes/id/assets")}
           \/ /\ build.pc = "put"
              /\ build' \in {null, IF build.content.announcementBar
                                    THEN issue("announcementGet", "GET themes/id/assets")
                                    ELSE configured}
           \/ /\ build.pc = "announcementGet"
              /\ build' \in {configured, issue("announcementPut", "PUT themes/id/assets")}
           \/ /\ build.pc = "announcementPut"
              /\ build' = configured
        /\ UNCHANGED <<pc, now, url, platform, result, error, ret, outcome, fetches, kept,
                       page, other, otherPlatform, body, status, suspended, wizard>>

\* The creation of the FAQ or of the About page is answered or fails
\* (caught and logged).
CreatePagesResponds ==
    /\ build.pc \in {"faq", "about"}
    /\ \E ok \in BOOLEAN :
         build' = Proceed([build EXCEPT !.pages = IF ok THEN @ + 1 ELSE @],
                          IF build.pc = "faq" THEN "about" ELSE "return")
    /\ UNCHANGED <<pc, now, url, platform, result, error, ret, outcome, fetches, kept,
                   page, other, otherPlatform, body, status, suspended, wizard>>

NextBuild ==
    \/ Build
    \/ CreateProductResponds
    \/ UploadProductImagesResponds
    \/ SetProductMetafieldsResponds
    \/ ConfigureThemeResponds
    \/ CreatePagesResponds

SpecBuild == Init /\ [][NextBuild]_vars

---------------------------------------------------------------------------
\* The GeneratePage component (src/unnamed/part_001).  `wizard` holds its
\* state: step (a value of STEPS), url, error, productData,
\* generatedContent and buildResult.  A handler runs only in the steps whose
\* rendering offers its control.

\* What a POST to /api/scrape, /api/generate or /api/build-store can come
\* back with: the fetch fails, or a response arrives whose body is not
\* JSON, or the success body of the handlers ({success, data}), or their
\* error body ({error}), whose message may be empty or missing.
ApiAnswers ==
    {[rejected |-> TRUE, ok |-> FALSE, json |-> Undefined]}
    \cup {[rejected |-> FALSE, ok |-> ok, json |-> Undefined] : ok \in BOOLEAN}
    \cup {[rejected |-> FALSE, ok |-> TRUE, json |-> [data |-> Obj, error |-> Undefined]]}
    \cup {[rejected |-> FALSE, ok |-> FALSE, json |-> [data |-> Undefined, error |-> e]] :
              e \in {Str(<<"U","R","L"," ","i","s"," ","r","e","q","u","i","r","e","d">>), Str(<<"A","I"," ","g","e","n","e","r","a","t","i","o","n"," ","f","a","i","l","e","d">>),
                     Str(<<>>), Undefined}}

\* apiCall on an answer: the parsed body, or the message of the Error it
\* throws.
apiCall(answer) ==
    CASE answer.rejected ->
            [threw |-> TRUE, message |-> Str(<<"F","a","i","l","e","d"," ","t","o"," ","f","e","t","c","h">>)]
      [] answer.json = Undefined ->
            [threw |-> TRUE, message |-> Str(<<"U","n","e","x","p","e","c","t","e","d"," ","t","o","k","e","n">>)]
      [] ~answer.ok ->
            [threw |-> TRUE,
             message |-> Or(answer.json.error, Str(<<"A","P","I"," ","r","e","q","u","e","s","t"," ","f","a","i","l","e","d">>))]
      [] OTHER -> [threw |-> FALSE, value |-> answer.json]

\* The product URL field changes.
handleUrlChange ==
    /\ wizard.step = "input"
    /\ \E value \in {<<>>, <<" ">>, <<"a">>, <<" ","a">>, <<"a"," ">>, <<"b">>} :
         wizard' = [wizard EXCEPT !.url = value]
    /\ UNCHANGED <<pc, now, url, platform, result, error, ret, outcome, fetches, kept,
                   page, other, otherPlatform, body, status, suspended, build>>

\* handleGenerate up to its first await.
handleGenerate ==
    /\ wizard.step = "input"
    /\ wizard' = IF Trim(wizard.url) = <<>>
                 THEN [wizard EXCEPT !.error = Str(<<"P","l","e","a","s","e"," ","e","n","t","e","r"," ","a"," ","p","r","o","d","u","c","t"," ","U","R","L">>)]
                 ELSE [wizard EXCEPT !.error = Null, !.step = "scraping"]
    /\ UNCHANGED <<pc, now, url, platform, result, error, ret, outcome, fetches, kept,
                   page, other, otherPlatform, body, status, suspended, build>>

\* a handleGenerate that shows the preview before the content is generated
ScrapeResponds_preview ==
    /\ wizard.step = "scraping"
    /\ \E answer \in ApiAnswers :
         LET scrapeResult == apiCall(answer)
         IN  wizard' = IF scrapeResult.threw
                       THEN [wizard EXCEPT !.error = scrapeResult.message, !.step = "input"]
                       ELSE [wizard EXCEPT !.productData = scrapeResult.value.data,
                                           !.step = "preview"]
    /\ UNCHANGED <<pc, now, url, platform, result, error, ret, outcome, fetches, kept,
                   page, other, otherPlatform, body, status, suspended, build>>

\* handleGenerate after /scrape: the record is kept and /generate is
\* called, or the catch shows the message on the input step.
ScrapeResponds ==
    /\ wizard.step = "scraping"
    /\ \E answer \in ApiAnswers :
         LET scrapeResult == apiCall(answer)
         IN  wizard' = IF scrapeResult.threw
                       THEN [wizard EXCEPT !.error = scrapeResult.message, !.step = "input"]
                       ELSE [wizard EXCEPT !.productData = scrapeResult.value.data,
                                           !.step = "generating"]
    /\ UNCHANGED <<pc, now, url, platform, result, error, ret, outcome, fetches, kept,
                   page, other, otherPlatform, body, status, suspended, build>>

\* handleGenerate after /generate.
GenerateResponds ==
    /\ wizard.step = "generating"
    /\ \E answer \in ApiAnswers :
         LET generateResult == apiCall(answer)
         IN  wizard' = IF generateResult.threw
                       THEN [wizard EXCEPT !.error = generateResult.message, !.step = "input"]
                       ELSE [wizard EXCEPT !.generatedContent = generateResult.value.data,
                                           !.step = "preview"]
    /\ UNCHANGED <<pc, now, url, platform, result, error, ret, outcome, fetches, kept,
                   page, other, otherPlatform, body, status, suspended, build>>

\* handleBuildStore up to its await.
handleBuildStore ==
    /\ wizard.step = "preview"
    /\ wizard' = [wizard EXCEPT !.step = "building"]
    /\ UNCHANGED <<pc, now, url, platform, result, error, ret, outcome, fetches, kept,
                   page, other, otherPlatform, body, status, suspended, build>>

\* handleBuildStore after /build-store.
BuildStoreResponds ==
    /\ wizard.step = "building"
    /\ \E answer \in ApiAnswers :
         LET buildResult == apiCall(answer)
         IN  wizard' = IF buildResult.threw
                       THEN [wizard EXCEPT !.error = buildResult.message, !.step = "preview"]
                       ELSE [wizard EXCEPT !.buildResult = buildResult.value.data,
                                           !.step = "complete"]
    /\ UNCHANGED <<pc, now, url, platform, result, error, ret, outcome, fetches, kept,
                   page, other, otherPlatform, body, status, suspended, build>>

\* Start Over, Create Another Store.
handleReset ==
    /\ wizard.step \in {"preview", "complete"}
    /\ wizard' = [step |-> "input", url |-> <<>>, error |-> Null, productData |-> Null,
                  generatedContent |-> Null, buildResult |-> Null]
    /\ UNCHANGED <<pc, now, url, platform, result, error, ret, outcome, fetches, kept,
                   page, other, otherPlatform, body, status, suspended, build>>

NextWizard ==
    \/ handleUrlChange
    \/ handleGenerate
    \/ ScrapeResponds
    \/ GenerateResponds
    \/ handleBuildStore
    \/ BuildStoreResponds
    \/ handleReset

SpecWizard == Init /\ [][NextWizard]_vars

---------------------------------------------------------------------------
\* detectPlatform applied to a url and to the same url in another letter case.

InitDetect ==
    /\ pc = "detect"
    /\ now = 0
    /\ url \in DetectUrls
    /\ other \in CaseVariants(url)
    /\ platform = Unset
    /\ otherPlatform = Unset
    /\ result = Undefined
    /\ error = "none"
    /\ ret = Undefined
    /\ outcome = "none"
    /\ fetches = <<>>
    /\ kept = Undefined
    /\ page = Undefined
    /\ body = Undefined
    /\ status = 0
    /\ suspended = Undefined
    /\ build = Undefined
    /\ wizard = Undefined

DetectUrl ==
    /\ pc = "detect"
    /\ platform = Unset
    /\ platform' = detectPlatform(url)
    /\ UNCHANGED <<pc, now, url, result, error, ret, outcome, fetches, kept, page,
                   other, otherPlatform, body, status, suspended, build, wizard>>

DetectOther ==
    /\ pc = "detect"
    /\ otherPlatform = Unset
    /\ otherPlatform' = detectPlatform(other)
    /\ UNCHANGED <<pc, now, url, platform, result, error, ret, outcome, fetches, kept,
                   page, other, body, status, suspended, build, wizard>>

NextDetect == DetectUrl \/ DetectOther

SpecDetect == InitDetect /\ [][NextDetect]_vars

---------------------------------------------------------------------------
\* Properties of scrape.

\* scrape has returned after its extractor handed back a candidate
Returned == pc = "done" /\ outcome = "returned"
ExtractorReturned == pc = "done" /\ result # Undefined
ExtractorFailed == pc = "done" /\ result = Undefined

\* C1: scrape never throws.  Whatever the url and whatever the extractor
\* did (a candidate, a failed fetch, a TypeError while parsing, a candidate
\* whose title is no string), a finished run has returned a record, and
\* after any caught error that record is the demo record.
ScrapeNeverThrows ==
    pc = "done" =>
        /\ outcome = "returned"
        /\ "title" \in DOMAIN ret
        /\ (error # "none" => IsDemo(ret))

\* C1 witness: a candidate with a malformed title made the validity test
\* itself raise, and scrape still returned.
ScrapeSurvivesMalformedCandidate ==
    /\ ExtractorReturned
    /\ error = "TypeError"
    /\ outcome = "returned"

\* The rejection criteria as the claims word them.
TitleMissing(t) == ~Truthy(t)
TitleShort(t) == t.kind \in {"string", "array"} /\ Len(t.val) < 5
TitleHas404(t) == t.kind \in {"string", "array"} /\ TitleIncludes404(t)
TitleUntestable(t) == Truthy(t) /\ t.kind \notin {"string", "array"}
StatedCriteria(c) ==
    TitleMissing(c.title) \/ TitleShort(c.title) \/ TitleHas404(c.title) \/ c.price = Num(0)

\* C2 as stated: for a returned candidate, the demo record comes back
\* exactly when the title is missing, shorter than 5, contains "404" or the
\* price is 0, and otherwise the candidate itself comes back.
GateIffStatedCriteria ==
    ExtractorReturned =>
        /\ IsDemo(ret) <=> StatedCriteria(result)
        /\ ~IsDemo(ret) => ret = result

\* C2 amended: the demo record comes back exactly when one of the stated
\* criteria fires or the title is a truthy value that is neither a string
\* nor an array (a number, true, an object), on which the test raises;
\* otherwise the candidate itself comes back.
GateIffCriteriaOrUntestable ==
    ExtractorReturned =>
        /\ IsDemo(ret) <=> (StatedCriteria(result) \/ TitleUntestable(result.title))
        /\ ~IsDemo(ret) => ret = result

\* C2 witness: a candidate with a numeric title and a price was replaced.
NumericTitleReplaced ==
    /\ ExtractorReturned
    /\ result.title = Num(1234500)
    /\ result.price # Num(0)
    /\ IsDemo(ret)

\* C3: when the extractor fails (failed fetch, timeout, status outside 2xx,
\* exception while parsing), scrape returns the demo record with the demo
\* title, the detected platform and the input url.
ExtractorFailureYieldsDemo ==
    ExtractorFailed =>
        /\ error # "none"
        /\ outcome = "returned"
        /\ IsDemo(ret)
        /\ ret.title = Str(DemoTitle)
        /\ ret.platform = platform
        /\ ret.url = url

\* C3 witness: the page fetch was answered 404 and the demo record came back.
NotFoundYieldsDemo ==
    /\ ExtractorFailed
    /\ error = "status 404"
    /\ IsDemo(ret)

\* the validity test accepted the extractor's candidate
GateAccepted == ExtractorReturned /\ InvalidData(result) = "false"

DemoAllFieldsHardcoded ==
    (Returned /\ IsDemo(ret)) =>
        \A f \in DOMAIN ret \ {"isDemo"} :
            f \in DOMAIN DemoFields /\ ret[f] = DemoFields[f]

\* C5 amended: every field of a demo record is the hardcoded one, except
\* platform (the detected platform), url (the input url) and scrapedAt (the
\* time of the call).
DemoFieldsHardcodedButThree ==
    (Returned /\ IsDemo(ret)) =>
        /\ DOMAIN ret = DOMAIN DemoFields \cup {"platform", "url", "scrapedAt", "isDemo"}
        /\ \A f \in DOMAIN DemoFields : ret[f] = DemoFields[f]
        /\ ret.platform = platform
        /\ ret.url = url
        /\ ret.scrapedAt = now

\* C5 witness: the gate rejected an Amazon candidate and the demo record
\* came back at a later time than 0.
DemoAfterRejection ==
    /\ ExtractorReturned
    /\ IsDemo(ret)
    /\ platform = "amazon"
    /\ now > 0

DemoPassesGate ==
    (Returned /\ IsDemo(ret)) =>
        /\ ~StatedCriteria(ret)
        /\ InvalidData(ret) = "false"
        /\ Completion(ret, "none", url, platform, now).value = ret

\* C7 witness: a demo record substituted for a candidate without a price.
DemoForMissingPrice ==
    /\ ExtractorReturned
    /\ result.price = Num(0)
    /\ Truthy(result.title)
    /\ IsDemo(ret)

---------------------------------------------------------------------------
\* Properties of detectPlatform.

\* The table of the spec: fragment and platform id, in order.
FragmentTable ==
    << <<FragAliExpress, "aliexpress">>, <<FragAmazon, "amazon">>,
       <<FragAlibaba, "alibaba">>, <<Frag1688, "1688">>, <<FragCj, "cj">> >>

\* frag occurs in s, letter case ignored
ContainsIgnoringCase(s, frag) ==
    \E i \in 1..Len(s) :
        /\ i + Len(frag) - 1 <= Len(s)
        /\ \A j \in 1..Len(frag) : LowerChar(s[i + j - 1]) = LowerChar(frag[j])

\* the host of a url: from after "//" to the next "/", "?" or "#"
HostOf(u) ==
    LET a == (CHOOSE i \in 1..Len(u) :
                 MatchAt(u, <<"/", "/">>, i) /\ \A j \in 1..(i - 1) : ~MatchAt(u, <<"/", "/">>, j)) + 2
        b == IF \E i \in a..Len(u) : u[i] \in {"/", "?", "#"}
             THEN (CHOOSE i \in a..Len(u) :
                      u[i] \in {"/", "?", "#"} /\ \A j \in a..(i - 1) : u[j] \notin {"/", "?", "#"}) - 1
             ELSE Len(u)
    IN  SubSeq(u, a, b)

HostRecognized(u) ==
    \E k \in 1..Len(FragmentTable) : ContainsIgnoringCase(HostOf(u), FragmentTable[k][1])

\* C8: detectPlatform returns the platform of the first table fragment the
\* url contains, whatever the letter case, and two urls that differ only in
\* letter case get the same platform.
DetectCaseInsensitive ==
    /\ platform # Unset =>
          \A k \in 1..Len(FragmentTable) :
              (/\ ContainsIgnoringCase(url, FragmentTable[k][1])
               /\ \A j \in 1..(k - 1) : ~ContainsIgnoringCase(url, FragmentTable[j][1]))
              => platform = FragmentTable[k][2]
    /\ (platform # Unset /\ otherPlatform # Unset) => platform = otherPlatform

\* C8 witness: a url and a differently cased spelling were both detected as
\* aliexpress.
DetectedBothSpellings ==
    /\ platform = "aliexpress"
    /\ otherPlatform = "aliexpress"
    /\ other # url
    /\ other # ToLowerCase(other)

\* the spec's genericHttp is the id the code spells "generic"
GenericHttp == "generic"

\* C9 as stated: a url whose host is no recognized platform, even one that
\* mentions a fragment in its path or query, is detected as genericHttp.
UnrecognizedHostIsGeneric ==
    (platform # Unset /\ ~HostRecognized(url)) => platform = GenericHttp

\* C9 amended: a url that contains no table fragment anywhere (host, path
\* or query) is detected as generic, and only such a url is; detectPlatform
\* always returns one of its six ids.
NoFragmentIsGeneric ==
    platform # Unset =>
        /\ (\A k \in 1..Len(FragmentTable) : ~ContainsIgnoringCase(url, FragmentTable[k][1]))
              <=> platform = GenericHttp
        /\ platform \in {FragmentTable[k][2] : k \in 1..Len(FragmentTable)} \cup {GenericHttp}

\* C9 witness: a url without any fragment was detected as generic.
PlainUrlDetectedGeneric ==
    /\ platform = GenericHttp
    /\ ~HostRecognized(url)
    /\ \A k \in 1..Len(FragmentTable) : ~ContainsIgnoringCase(url, FragmentTable[k][1])

\* the enumeration of the spec
SpecPlatforms == {"aliexpress", "amazon", "alibaba", "cj", GenericHttp}

\* the ids the code uses
CodePlatforms == {"aliexpress", "amazon", "alibaba", "1688", "cj", GenericHttp}

\* C10 as stated: every detected platform and the platform of every
\* returned record is in {aliexpress, amazon, alibaba, cj, genericHttp}.
PlatformInSpecEnumeration ==
    /\ platform # Unset => platform \in SpecPlatforms
    /\ Returned => ret.platform \in SpecPlatforms

\* C10 amended: every detected platform and the platform of every returned
\* record is in {aliexpress, amazon, alibaba, 1688, cj, generic}.
PlatformInCodeEnumeration ==
    /\ platform # Unset => platform \in CodePlatforms
    /\ Returned => ret.platform \in CodePlatforms

\* C10 witness: a record with platform 1688 was returned.
Returned1688 ==
    /\ Returned
    /\ platform = "1688"
    /\ ret.platform = "1688"

---------------------------------------------------------------------------
\* Properties of the records scrape returns.

\* C11: the platform of every returned record, accepted candidate or demo
\* record, is the value detectPlatform(url) computed before extraction; no
\* extractor re-derives it.
PlatformIsDetected ==
    Returned => (ret.platform = platform /\ ret.platform = detectPlatform(url))

\* C11 witness: an accepted candidate for a cjdropshipping.com url, detected
\* as cj, carries the platform scrapeGeneric wrote.
CjCandidateIsGeneric ==
    /\ GateAccepted
    /\ url = UrlCj
    /\ platform = "cj"
    /\ ret.platform = "generic"

\* C15: the price of every candidate an extractor produces is a finite
\* number that is not negative; a price that was not found or not parsed is
\* 0 and nothing else (not NaN, null, undefined or a negative number).
CandidatePriceIsAmount ==
    ExtractorReturned =>
        /\ "price" \in DOMAIN result
        /\ result.price.kind = "number"
        /\ result.price.val >= 0

\* C15 witness: the mobile API named a price that is no number, the
\* candidate's price is NaN, and the gate accepted the candidate.
NaNPriceAccepted ==
    /\ GateAccepted
    /\ result.price = NaN
    /\ ret.price = NaN

\* C17: in every returned record that has an originalPrice (not null, not
\* absent), originalPrice >= price.
OriginalPriceAtLeastPrice ==
    (/\ Returned
     /\ "originalPrice" \in DOMAIN ret
     /\ ret.originalPrice \notin {Null, Undefined})
    => /\ ret.originalPrice.kind = "number"
       /\ ret.price.kind = "number"
       /\ ret.originalPrice.val >= ret.price.val

\* C17 witness: the mobile API named a promotion price and no list price;
\* the accepted record has originalPrice 0 under a price of 12.99.
OriginalPriceZeroBelowPrice ==
    /\ GateAccepted
    /\ "originalPrice" \in DOMAIN ret
    /\ ret.originalPrice = Num(0)
    /\ ret.price = Num(1299)

\* C18: every returned record, from any extractor or the demo record,
\* carries the input url unchanged in its url field.
RecordCarriesUrl ==
    Returned => ("url" \in DOMAIN ret /\ ret.url = url)

\* C18 witness: the candidate of the mobile API was accepted and has no url
\* field.
ApiRecordWithoutUrl ==
    /\ GateAccepted
    /\ platform = "aliexpress"
    /\ Len(fetches) = 1
    /\ "url" \notin DOMAIN ret

\* The first price string the extractor located on the page it fetched
\* (<<>> when it located none), for the extractors that read the price from
\* the text of an element: scrapeAmazon, scrapeAlibaba, scrapeGeneric.
LocatedPriceText ==
    IF platform = "amazon"
    THEN (IF \E i \in 1..5 : page.priceEls[i] # <<>>
          THEN page.priceEls[CHOOSE i \in 1..5 :
                   page.priceEls[i] # <<>> /\ \A j \in 1..(i - 1) : page.priceEls[j] = <<>>]
          ELSE <<>>)
    ELSE IF platform = "alibaba" THEN page.priceText
    ELSE Or(page.priceContent, Str(page.priceText)).val

\* the number the claim describes: every character but digits and the
\* decimal point deleted, the rest parsed, 0 when that is no number
StrippedPrice(s) == Or(ParseFloatStr(KeepChars(s, Digits \cup {"."})), Num(0))

\* C16: the price of a candidate is the number obtained by deleting every
\* character other than digits and the decimal point from the first located
\* price string and parsing the rest ("$1,299.00" gives 1299), and 0 when
\* that fails; stated here for the Amazon, Alibaba and generic extractors.
PriceIsStrippedText ==
    (ExtractorReturned /\ platform # "aliexpress") =>
        result.price = StrippedPrice(LocatedPriceText)

\* C16 witness: an Amazon page priced "$1,299.00" gave an accepted record
\* with price 1.
AmazonThousandsPriceOne ==
    /\ GateAccepted
    /\ platform = "amazon"
    /\ LocatedPriceText = <<"$","1",",","2","9","9",".","0","0">>
    /\ ret.price = Num(100)

\* C12: the images list of every returned record, whichever extractor or
\* the demo record it comes from, has no entry twice and at most 15 entries.
ImagesDistinctAtMost15 ==
    Returned =>
        /\ "images" \in DOMAIN ret
        /\ Len(ret.images) <= 15
        /\ \A i, j \in 1..Len(ret.images) : i # j => ret.images[i] # ret.images[j]

\* C12 witness: an Alibaba page showing //cdn.example.com/a.jpg twice gave
\* an accepted record that lists https://cdn.example.com/a.jpg twice.
AlibabaImageTwice ==
    /\ GateAccepted
    /\ platform = "alibaba"
    /\ page.imgs = <<ImageSrcs.relative, ImageSrcs.relative>>
    /\ ret.images = <<ImageSrcs.absolute, ImageSrcs.absolute>>

\* C13: no entry of the images list of a returned record starts with "data:".
NoDataUriImage ==
    Returned =>
        \A i \in 1..Len(ret.images) : ~StartsWith(ret.images[i], <<"d","a","t","a",":">>)

\* C13 witness: an Amazon page whose first thumbnail is a data: uri gave an
\* accepted record that lists it.
AmazonDataUriKept ==
    /\ GateAccepted
    /\ platform = "amazon"
    /\ page.thumbs = <<ImageSrcs.dataUri, ImageSrcs.absolute>>
    /\ ArrayIncludes(ret.images, ImageSrcs.dataUri)

\* The image srcs the extractor of the finished run came across, in order.
FoundSrcs ==
    IF "item" \in DOMAIN page THEN Or(page.item.images, Arr(<<>>)).val
    ELSE IF platform = "aliexpress"
    THEN (IF page.pageData # Null /\ Truthy(page.pageData.imagePathList)
          THEN page.pageData.imagePathList.val ELSE <<>>) \o page.imgs
    ELSE IF platform = "amazon" THEN <<page.mainImg>> \o page.thumbs \o page.hiRes
    ELSE page.imgs

\* C14: no entry of a returned images list starts with "//", and every
\* protocol-relative src the extractor found is in the list of the record
\* as "https:" followed by the src.
ProtocolRelativeRewritten ==
    /\ Returned =>
          \A i \in 1..Len(ret.images) : ~StartsWith(ret.images[i], <<"/", "/">>)
    /\ GateAccepted =>
          \A k \in 1..Len(FoundSrcs) :
              StartsWith(FoundSrcs[k], <<"/", "/">>)
                  => ArrayIncludes(ret.images, <<"h","t","t","p","s",":">> \o FoundSrcs[k])

\* C14 witness: an Amazon page with the thumbnail //cdn.example.com/a.jpg
\* gave an accepted record that lists it as found.
AmazonProtocolRelativeKept ==
    /\ GateAccepted
    /\ platform = "amazon"
    /\ ArrayIncludes(page.thumbs, ImageSrcs.relative)
    /\ ArrayIncludes(ret.images, ImageSrcs.relative)
    /\ ~ArrayIncludes(ret.images, ImageSrcs.absolute)

\* C19: every fetch of a run is issued with a timeout, so (a fetch with a
\* timeout being answered or failing in the end) every run that waits for a
\* fetch eventually returns.
RunEventuallyReturns ==
    (pc \in {"await_api", "await_page", "await_desc"}) ~> (pc = "done")

\* C19 witness: the run waits for the description sub-fetch, which was
\* issued without a timeout.
DescriptionFetchWithoutTimeout ==
    /\ pc = "await_desc"
    /\ fetches[Len(fetches)].to = "description"
    /\ fetches[Len(fetches)].timeout = 0

\* C20: whatever truthy value the handler of POST /api/scrape passes to
\* scrape as url, scrape returns a record and the handler answers 200 with
\* it, never 500.
HandlerAnswersRecord ==
    (pc = "done" /\ Truthy(body)) =>
        /\ outcome = "returned"
        /\ status = 200
        /\ "title" \in DOMAIN ret

\* C20 witness: the request {"url": 42} was answered 500.
NumberUrlAnswered500 ==
    /\ pc = "done"
    /\ body = Num(4200)
    /\ outcome = "thrown"
    /\ status = 500

---------------------------------------------------------------------------
\* Properties of the AliExpress and generic extractors.

\* C22 as stated: for an AliExpress item url whose API attempt gave no
\* usable item and whose page has no embedded data, when the trimmed first
\* <h1> has at least 5 characters without "404" and the number after the
\* first "US $" of the body is not 0, scrape returns that heading as title and
\* that number as price, with platform "aliexpress", and not the demo record.
HeadingAndBodyPriceReturned ==
    ( /\ pc = "done"
      /\ platform = "aliexpress"
      /\ ProductIdOf(url) # Null
      /\ Len(fetches) = 2
      /\ page # Undefined
      /\ page.pageData = Null
      /\ Len(Trim(page.h1)) >= 5
      /\ ~Includes(Trim(page.h1), Text404)
      /\ MatchUsDollar(page.body) # Null
      /\ StrippedPrice(MatchUsDollar(page.body).val) # Num(0) )
    => /\ outcome = "returned"
       /\ ~IsDemo(ret)
       /\ ret.platform = "aliexpress"
       /\ ret.title = Str(Trim(page.h1))
       /\ ret.price = StrippedPrice(MatchUsDollar(page.body).val)

\* C22 witness: the body reads US $1,299.00 and the record returned for the
\* heading carries price 1.
BodyThousandsPriceOne ==
    /\ pc = "done"
    /\ platform = "aliexpress"
    /\ Len(fetches) = 2
    /\ page # Undefined
    /\ page.pageData = Null
    /\ MatchUsDollar(page.body) = Str(<<"1",",","2","9","9",".","0","0">>)
    /\ ret.title = Str(TextCharger)
    /\ ret.price = Num(100)

\* C23: a run is pending until its single decision: while it waits for a
\* fetch nothing is returned; it issues at most one fetch of each kind (one
\* extractor, invoked once); when it is done it has returned either the
\* candidate (accepted) or the demo record (substituted), never both; and a
\* finished run only leaves that state through its caller (the answer is
\* handed over, or the caller invokes scrape anew), never by itself.
OneExtractorOneDecision ==
    /\ [](/\ pc \in {"await_api", "await_page", "await_desc"} =>
               (ret = Undefined /\ outcome = "none" /\ result = Undefined)
          /\ \A k \in {"api", "page", "description"} :
               Cardinality({i \in 1..Len(fetches) : fetches[i].to = k}) <= 1
          /\ pc = "done" =>
               /\ outcome = "returned"
               /\ (ret = result) # IsDemo(ret)
               /\ result = Undefined => IsDemo(ret))
    /\ [][pc = "done" => (pc' = "idle" \/ kept' # kept)]_vars

\* C23 witness: a candidate was rejected, the demo record substituted, and
\* the run had fetched its page once.
RejectedAfterOneFetch ==
    /\ pc = "done"
    /\ result # Undefined
    /\ InvalidData(result) = "true"
    /\ IsDemo(ret)
    /\ fetches = <<Fetch("page", "amazon")>>

\* C24: in a run on an AliExpress url with a product id the first fetch is
\* the API fetch and a page fetch, if any, comes second; without a product
\* id the first fetch is the page fetch and no API fetch is issued.  The run
\* leaves the API attempt either by fetching the page, after the API fetch
\* failed or answered no item or an item without a title, or by returning
\* the API's candidate, which has a title: an API failure alone never ends
\* the run.
ApiFirstThenPage ==
    /\ []((pc \in {"await_api", "await_page", "await_desc", "done"}
             /\ platform = "aliexpress") =>
            IF ProductIdOf(url) # Null
            THEN /\ fetches[1].to = "api"
                 /\ \A i \in 2..Len(fetches) : fetches[i].to # "api"
                 /\ Len(fetches) >= 2 => fetches[2].to = "page"
            ELSE /\ fetches[1].to = "page"
                 /\ \A i \in 1..Len(fetches) : fetches[i].to # "api")
    /\ [][(pc = "await_api" /\ pc' # "await_api") =>
            \/ /\ pc' = "await_page"
               /\ fetches' = Append(fetches, Fetch("page", "aliexpress"))
               /\ \/ page' = Undefined
                  \/ ~ApiHasItem(page')
                  \/ ~Truthy(page'.item.title)
            \/ /\ pc' = "done"
               /\ fetches' = fetches
               /\ ApiHasItem(page')
               /\ Truthy(page'.item.title)
               /\ result'.title = page'.item.title]_vars

\* C24 witness: the API fetch failed and the run is waiting for the page it
\* fetched next.
ApiFailedPageFetched ==
    /\ pc = "await_page"
    /\ ProductIdOf(url) # Null
    /\ page = Undefined
    /\ fetches = <<Fetch("api", "aliexpress"), Fetch("page", "aliexpress")>>

\* C25 as stated: the embedded data of a fetched AliExpress page is the
\* value of the first match, in the order of the script tags and within a
\* tag in the order of the patterns, that JSON.parse accepts (null when
\* there is none): matches that fail to parse are passed over and no later
\* match replaces the first one that parsed.
FirstParsedMatchKept ==
    (pc = "done" /\ platform = "aliexpress" /\ "scripts" \in DOMAIN page) =>
        LET parsed == {m \in (1..Len(page.scripts)) \X (1..3) :
                          /\ page.scripts[m[1]][m[2]] # Null
                          /\ page.scripts[m[1]][m[2]].valid}
            first == CHOOSE m \in parsed : \A n \in parsed :
                          m[1] < n[1] \/ (m[1] = n[1] /\ m[2] <= n[2])
        IN  /\ error # "SyntaxError"
            /\ page.pageData = IF parsed = {} THEN Null
                                ELSE page.scripts[first[1]][first[2]].value

\* C25 witness: the first script tag holds data titled "Wireless Charger"
\* that parses, a later tag holds data titled "Artisan Mug", and the record
\* returned carries the later title.
LaterScriptTagReplaced ==
    /\ pc = "done"
    /\ platform = "aliexpress"
    /\ "scripts" \in DOMAIN page
    /\ Len(page.scripts) = 2
    /\ page.scripts[1][1] # Null
    /\ page.scripts[1][1].valid
    /\ page.scripts[1][1].value.pageTitle = Str(TextCharger)
    /\ ret.title = Str(TextMug)

\* C26 as stated: the price of the candidate built from an AliExpress page
\* is the first non-empty one of the embedded price (minActivityAmount,
\* minAmount, formatedActivityPrice without its non-digits) and the number
\* after the first "US $" of the body, and 0 only when both are empty.
AliPriceFirstNonEmpty ==
    (pc = "done" /\ platform = "aliexpress" /\ "scripts" \in DOMAIN page
       /\ result # Undefined) =>
        LET m == page.pageData.priceModule
            formatted == IF m.formatedActivityPrice.kind = "string"
                         THEN Str(KeepChars(m.formatedActivityPrice.val, Digits \cup {"."}))
                         ELSE Undefined
            embedded == IF page.pageData # Null /\ m # Undefined
                        THEN Or(Or(m.minActivityAmount, m.minAmount), formatted)
                        ELSE Undefined
            inBody == IF MatchUsDollar(page.body) # Null THEN MatchUsDollar(page.body)
                      ELSE Undefined
        IN  result.price = Or(ParseFloat(Or(embedded, inBody)), Num(0))

\* C26 witness: the page embeds a priceModule without any price value, its
\* body reads US $12.99, and the candidate's price is 0.
EmptyPriceModuleHidesBodyPrice ==
    /\ pc = "done"
    /\ platform = "aliexpress"
    /\ "scripts" \in DOMAIN page
    /\ result # Undefined
    /\ AliHasPriceModule(page)
    /\ ~Truthy(page.pageData.priceModule.minActivityAmount)
    /\ ~Truthy(page.pageData.priceModule.minAmount)
    /\ page.pageData.priceModule.formatedActivityPrice = Undefined
    /\ MatchUsDollar(page.body) = Str(Price1299)
    /\ result.price = Num(0)
    /\ IsDemo(ret)

\* C27 as stated: in the candidate of the generic extractor the microdata
\* value wins when present: a non-empty [itemprop="name"] text is the title
\* even when the page has an <h1>, and a non-empty [itemprop="price"] content
\* is the price even when the page has a .price element.
MicrodataWins ==
    (pc = "done" /\ platform \in {"generic", "cj", "1688"} /\ result # Undefined) =>
        /\ Trim(page.itemName) # <<>> => result.title = Str(Trim(page.itemName))
        /\ Truthy(page.priceContent) => result.price = StrippedPrice(page.priceContent.val)

\* C27 witness: the page has the microdata name "Artisan Mug" and the <h1>
\* "Wireless Charger"; the candidate is titled by the <h1> and priced by the
\* microdata content 12.99, not by the .price text 9.99.
HeadingBeatsMicrodataName ==
    /\ pc = "done"
    /\ platform = "generic"
    /\ result # Undefined
    /\ page.itemName = TextMug
    /\ page.h1 = TextCharger
    /\ page.priceText = Price999
    /\ result.title = Str(TextCharger)
    /\ result.price = Num(1299)
    /\ ret = result

\* C28: when the API answers an item with a truthy title, the run ends in
\* that very step with the API's candidate as the extractor's result and
\* the API fetch as its only fetch; and when that item carries no price
\* (neither promotionPrice nor price), scrape has returned the demo record.
ApiTitleEndsExtraction ==
    /\ [][(pc = "await_api" /\ "item" \in DOMAIN page' /\ ApiHasItem(page')
             /\ Truthy(page'.item.title)) =>
            /\ pc' = "done"
            /\ fetches' = <<Fetch("api", "aliexpress")>>
            /\ result'.title = page'.item.title
            /\ "url" \notin DOMAIN result']_vars
    /\ []((pc = "done" /\ "item" \in DOMAIN page
             /\ ~Truthy(Or(page.item.promotionPrice, page.item.price))) =>
            /\ result.price = Num(0)
            /\ IsDemo(ret)
            /\ \A i \in 1..Len(fetches) : fetches[i].to # "page")

\* C28 witness: the API answered "Wireless Charger" without a price, no
\* page was fetched and the demo record came back.
ApiTitleWithoutPriceYieldsDemo ==
    /\ pc = "done"
    /\ "item" \in DOMAIN page
    /\ page.item.title = Str(TextCharger)
    /\ page.item.promotionPrice = Undefined
    /\ page.item.price = Undefined
    /\ fetches = <<Fetch("api", "aliexpress")>>
    /\ IsDemo(ret)

\* C21: in every interleaving of two runs, each run, running or suspended,
\* holds the platform detected for its own url, a candidate that is what its
\* own extractor makes of its own url and of the answer to its own fetch,
\* and, once finished, the record scrape yields for that candidate or
\* failure, url and platform: what the run yields when it executes alone.
\* A step of one run changes no local of the other.
RunsIndependent ==
    /\ [](LET candidate(r) ==
                IF "item" \in DOMAIN r.page
                THEN ApiCandidate(ProductIdOf(r.url).val, r.page, r.result.scrapedAt)
                ELSE IF detectPlatform(r.url) = "aliexpress"
                THEN AliCandidate(r.url, r.page, r.result.description, r.result.scrapedAt)
                ELSE IF detectPlatform(r.url) = "amazon"
                THEN AmazonCandidate(r.url, r.page, r.result.scrapedAt)
                ELSE IF detectPlatform(r.url) = "alibaba"
                THEN AlibabaCandidate(r.url, r.page, r.result.scrapedAt)
                ELSE GenericCandidate(r.url, r.page, r.result.scrapedAt)
            alone(r) ==
                /\ r.pc # "idle" => r.platform = detectPlatform(r.url)
                /\ r.result # Undefined => r.result = candidate(r)
                /\ r.pc = "done" =>
                     r.ret = Completion(r.result,
                                        IF r.result = Undefined THEN r.error ELSE "none",
                                        r.url, detectPlatform(r.url), r.ret.scrapedAt).value
          IN  alone(Locals) /\ alone(suspended))
    /\ [][suspended' # suspended => (suspended' = Locals /\ suspended = Locals')]_vars

\* C21 witness: the run on the Amazon url returned its own candidate while
\* the run on the AliExpress url, begun before it, was still waiting for its
\* page.
RunFinishedWhileOtherWaits ==
    /\ pc = "done"
    /\ url = UrlAmazon
    /\ ret = result
    /\ ret.platform = "amazon"
    /\ suspended # Undefined
    /\ suspended.pc = "await_page"
    /\ suspended.url = UrlAliItem

---------------------------------------------------------------------------
\* Properties of StoreBuilder.build.

\* C29: build issues its requests in the order of its steps: the product
\* post first and once, then the image uploads (none when the record has no
\* images, at most 10), the metafield writes, the theme requests, the page
\* posts; nothing is requested after the product post until it has answered
\* with the product; a failed createProduct ends build with that error and
\* no further request; and a build that got its product always returns,
\* having run every step, whatever later request failed.
BuildStepsInOrder ==
    /\ [](build.pc # "idle" =>
            LET requests == build.requests
                rank(request) ==
                    CASE request = "POST products" -> 1
                      [] request = "POST products/id/images" -> 2
                      [] request = "POST products/id/metafields" -> 3
                      [] request = "POST pages" -> 5
                      [] OTHER -> 4
                count(r) == Cardinality({k \in 1..Len(requests) : rank(requests[k]) = r})
                uploads == IF build.images < 10 THEN build.images ELSE 10
            IN  /\ \A k, l \in 1..Len(requests) : k < l => rank(requests[k]) <= rank(requests[l])
                /\ count(1) = (IF requests = <<>> THEN 0 ELSE 1)
                /\ Len(requests) > 1 => build.product = Obj
                /\ count(2) <= uploads
                /\ (build.pc = "done") = (build.outcome # "none")
                /\ build.outcome = "thrown" =>
                        /\ Len(requests) <= 1
                        /\ build.product # Obj
                        /\ build.error # "none"
                /\ build.product = Obj /\ build.pc = "done" =>
                        /\ build.outcome = "returned"
                        /\ count(2) = uploads
                        /\ count(3) = (IF build.content.urgencyMessage THEN 1 ELSE 0)
                                       + (IF build.content.faq THEN 1 ELSE 0)
                        /\ count(4) >= 1
                        /\ count(5) = (IF build.content.faq THEN 1 ELSE 0)
                                       + (IF build.content.story THEN 1 ELSE 0))
    /\ [][build.pc = "createProduct" /\ build'.product # Obj =>
            /\ build'.pc = "done"
            /\ build'.outcome = "thrown"
            /\ build'.error \in FetchErrors \cup {"TypeError"}
            /\ build'.requests = build.requests]_vars

\* a build of a record with more than 10 images returned although an upload,
\* the theme configuration and both page posts failed
BuildReturnedDespiteFailures ==
    /\ build.outcome = "returned"
    /\ build.images > 10
    /\ build.uploaded < 10
    /\ build.themeSettings = Null
    /\ build.content.faq
    /\ build.content.story
    /\ build.pages = 0

---------------------------------------------------------------------------
\* Properties of the GeneratePage component.

\* C30: the step changes only along input -> scraping -> generating ->
\* preview -> building -> complete, the failure edges scraping -> input,
\* generating -> input and building -> preview, and the reset edges
\* preview -> input and complete -> input; productData and generatedContent
\* are set whenever the step is preview, building or complete; and after a
\* failure edge the error is a non-empty message.
WizardStepsAndData ==
    /\ [](wizard.step \in {"preview", "building", "complete"} =>
            /\ wizard.productData \notin {Null, Undefined}
            /\ wizard.generatedContent \notin {Null, Undefined})
    /\ [][LET forward == {<<"input", "scraping">>, <<"scraping", "generating">>,
                          <<"generating", "preview">>, <<"preview", "building">>,
                          <<"building", "complete">>}
              failure == {<<"scraping", "input">>, <<"generating", "input">>,
                          <<"building", "preview">>}
              reset == {<<"preview", "input">>, <<"complete", "input">>}
              edge == <<wizard.step, wizard'.step>>
          IN  /\ wizard'.step # wizard.step => edge \in forward \cup failure \cup reset
              /\ edge \in failure =>
                    /\ wizard'.error.kind = "string"
                    /\ wizard'.error.val # <<>>]_vars

\* the build of a previewed store failed with an error body that carries no
\* message: the preview is shown again with the default message
BuildFailedBackToPreview ==
    /\ wizard.step = "preview"
    /\ wizard.error = Str(<<"A","P","I"," ","r","e","q","u","e","s","t"," ","f","a","i","l","e","d">>)
    /\ wizard.productData = Obj
    /\ wizard.generatedContent = Obj

====
